---- MODULE Spec2Model ----
(***************************************************************************)
(* A model of the derived-asset pipeline of adampresleyphotography:        *)
(*   - the Cache Builder (cache.CacheCreatorService.CreateCache) with its  *)
(*     pond worker pool and the hourly scheduler (setupCacheCreator),      *)
(*   - the Archive Builder (services.ZipService.CreateZipAsync and         *)
(*     processZip),                                                        *)
(*   - the job id derivation of CreateZipAsync as a function on strings.   *)
(* Object storage is a map from keys to last-modified stamps; 0 stands for *)
(* "no object at this key".  Strings are sequences of one-character        *)
(* strings.                                                                *)
(***************************************************************************)
EXTENDS Integers, Sequences, FiniteSets, TLC

(***************************************************************************)
(* Bounds of the model.                                                    *)
(***************************************************************************)
NumClients == 2
NumAlbums == 3
MaxSweeps == 2
MaxClock == 3
MaxFailures == 1
MaxCacheWorkers == 2
NumZipAlbums == 2
NumZipFiles == 2
MaxCalls == 2
MaxZipFailures == 2
MaxNameLen == 3
MaxAlbumID == 12
MaxStops == 2
MaxJanSweeps == 2
MaxJanFailures == 1
MaxDays == 1
MaxFileLen == 4
NumFavCallers == 2
MaxToggles == 3
MaxFavFailures == 1

(* NewZipService: the retention when none is configured *)
ExpirationDays == 7

VARIABLES
  (* ---- object storage and the clock of the store ---- *)
  now,          \* the store's clock; Put stamps an object with it
  orig,         \* orig[a]: lastModified of {clients}/{c}/{a}/originals/{poster}
  thumb,        \* thumb[a]: lastModified of .../thumbnails/{poster}
  hero,         \* hero[a]: lastModified of .../hero-banner/{poster}
  homeOrig,     \* lastModified of {home}/original/{file}
  homeThumb,    \* lastModified of {home}/thumbnail/{file}
  (* ---- process ---- *)
  ctxCancelled, \* shutdownCtx has been cancelled (main: cancel())
  exited,       \* the process has ended (os.Exit or main returned)
  quit,         \* the channel quit: "empty", "signal" (a value is in it), "taken"
  mainPc,       \* main: "serving", "shutdown" (after cancel()), "returned"
  (* ---- the scheduler goroutine and the CreateCache it is running ---- *)
  pc,           \* position of the scheduler goroutine
  running,      \* setupCacheCreator's local "running"
  sweepNo,      \* number of CreateCache invocations begun so far
  ci,           \* index of the client of the range loop
  ai,           \* index of the album of the inner range loop
  albums,       \* CreateCache's local "albums"
  albumImages,  \* CreateCache's local "albumImages"
  err,          \* CreateCache's local "err", captured by the submitted closures
  (* ---- pond pools: one per CreateCache invocation ---- *)
  queue,        \* queue[s]: tasks submitted to the pool of sweep s, not yet started
  active,       \* tasks being executed by a worker (of any pool)
  (* ---- bookkeeping for the properties (never read by the program) ---- *)
  nFail,        \* number of injected failures so far
  puts,         \* Put calls issued so far by the tasks of the latest sweep
  failed,       \* some call of the latest sweep returned an error
  prevFailed,   \* some call of the sweep before the latest returned an error
  lastTouch,    \* sweepNo at the time of the latest upload made by someone else
  ownErr,       \* the error the scanning loop's own latest call returned
  (* ---- Archive Builder ---- *)
  zipObj,       \* zipObj[a]: an object exists at the downloads key of album a
  calls,        \* calls[c]: the c-th invocation of CreateZipAsync
  nCalls,       \* number of CreateZipAsync invocations begun so far
  build,        \* build[c]: the processZip goroutine started by call c
  zFail,        \* number of injected failures of the Archive Builder so far
  zipData,      \* zipData[a]: the entries of the archive object of album a
  (* ---- one CreateZipAsync taken alone, for its job id ---- *)
  jName,        \* album.Name
  jID,          \* album.ID
  jPc,          \* "call" before the invocation, "returned" after it
  jRet,         \* what the invocation returned
  (* ---- the janitor of the Archive Builder ---- *)
  svc,          \* the ZipService value main holds: cleanupTicker, stopCleanup
  jan,          \* the goroutine of StartCleanupRoutine and the receiver it captured
  chClosed,     \* the stop channels that have been closed
  wg,           \* the counter of the WaitGroup *wg
  stopPc,       \* position of the caller of StopCleanupRoutine
  nStops,       \* number of StopCleanupRoutine calls that have returned
  panicked,     \* a close of a closed channel has happened
  janNow,       \* the wall clock, in days
  janStore,     \* janStore[key]: lastModified of the object at key, 0: none
  sweep,        \* the locals of the running cleanupExpiredZips
  janHist,      \* bookkeeping for the properties and the bounds; the fields:
                \*   stops: the StopCleanupRoutine calls that returned on a started janitor
                \*   sweepAtStop: the sweep in progress at the first of them, 0: none
                \*   begunAfterStop: a sweep has begun after that return
                \*   callAfterStop: sweep sweepAtStop has called List or Delete since
                \*   deleted: the objects Delete has removed
                \*   of the last sweep: clean (no call failed), catalogFailed (GetAll or
                \*   GetAlbumList failed), listed (albums),
                \*   listFailed (albums), delFailed (keys), examined (keys)
  (* ---- one request to DownloadZip ---- *)
  dlReq,        \* the client, the filename of the request and where it came from
  dlRet,        \* what DownloadZip did
  favorites,    \* the rows of the table favorites of one client and album
  favCall,      \* the calls of ToggleFavorite: position, key, locals, results
  nToggles,     \* the calls of ToggleFavorite begun
  favFail,      \* the database calls that have returned an error
  viewOrig,     \* the names listed under the album's originals/
  viewThumb,    \* the names listed under the album's thumbnails/
  viewRet       \* what convertAlbumToViewModel returned

storeVars == <<now, orig, thumb, hero, homeOrig, homeThumb>>
procVars == <<ctxCancelled, exited, quit, mainPc>>
schedVars == <<pc, running, sweepNo>>
loopVars == <<ci, ai, albums, albumImages, err, ownErr>>
poolVars == <<queue, active>>
histVars == <<nFail, puts, failed, prevFailed, lastTouch>>

cacheVars == <<storeVars, procVars, schedVars, loopVars, poolVars, histVars>>

zipVars == <<zipObj, calls, nCalls, build, zFail, zipData>>
jobVars == <<jName, jID, jPc, jRet>>

janVars == <<svc, jan, chClosed, wg, stopPc, nStops, panicked, janNow, janStore,
             sweep, janHist>>

dlVars == <<dlReq, dlRet>>
favVars == <<favorites, favCall, nToggles, favFail>>
viewVars == <<viewOrig, viewThumb, viewRet>>
webVars == <<dlVars, favVars, viewVars>>

vars == <<cacheVars, zipVars, jobVars, janVars, webVars>>

(***************************************************************************)
(* The catalog: clients and their albums (ClientService.GetAll,            *)
(* AlbumService.GetAlbumList).  Every album has one original, its poster.  *)
(***************************************************************************)
Clients == 1..NumClients
Albums == 1..NumAlbums
Sweeps == 1..MaxSweeps

ClientOf(a) == ((a - 1) % NumClients) + 1

RECURSIVE SortedSeq(_)
SortedSeq(S) ==
  IF S = {} THEN <<>>
  ELSE LET m == CHOOSE x \in S : \A y \in S : x <= y
       IN <<m>> \o SortedSeq(S \ {m})

GetAlbumList(c) == SortedSeq({a \in Albums : ClientOf(a) = c})

NoErr == "nil"
AnErr == "error"

(* time.Time.Before: strictly earlier *)
Before(t, u) == t < u

(***************************************************************************)
(* Failure injection: at most MaxFailures calls fail in one behaviour.     *)
(***************************************************************************)
MayFail == IF nFail < MaxFailures THEN {FALSE, TRUE} ELSE {FALSE}
Cnt(b) == IF b THEN 1 ELSE 0

(***************************************************************************)
(* Cache Builder: the freshness tests.                                     *)
(***************************************************************************)
(* a variant of homeThumbStale that takes a preview as old as its original
   for stale *)
homeThumbStaleOrSame(thumbLM, origLM) == thumbLM = 0 \/ thumbLM <= origLM

(* updateHomePageCache's test: thumbnailStat == nil || Before(original) *)
homeThumbStale(thumbLM, origLM) == thumbLM = 0 \/ Before(thumbLM, origLM)

(* a variant of doesThumbnailExist that takes a thumbnail as old as its
   original for stale *)
doesThumbnailExistStrictlyNewer(thumbLM, origLM, statErr) ==
  IF statErr THEN FALSE
  ELSE IF thumbLM = 0 THEN FALSE
  ELSE IF thumbLM <= origLM THEN FALSE
  ELSE TRUE

(* doesThumbnailExist: a stat error and a missing object both give false *)
doesThumbnailExist(thumbLM, origLM, statErr) ==
  IF statErr THEN FALSE
  ELSE IF thumbLM = 0 THEN FALSE
  ELSE IF Before(thumbLM, origLM) THEN FALSE
  ELSE TRUE

(* doesHeroExist: stats the hero banner, then the poster original *)
doesHeroExist(heroLM, origLM, heroStatErr, origStatErr) ==
  IF heroStatErr THEN FALSE
  ELSE IF origStatErr THEN FALSE
  ELSE IF origLM = 0 \/ heroLM = 0 \/ Before(heroLM, origLM) THEN FALSE
  ELSE TRUE

(***************************************************************************)
(* createThumbnail / createHeroBanner / resizeWork: Get, decode+resize,    *)
(* encode, Put.  "stage" names the call that fails ("ok": none).  The      *)
(* result says whether Put was called, the error returned and the stamp    *)
(* of the derived object afterwards.                                       *)
(***************************************************************************)
Stages == {"get", "decode", "encode", "put"}

createDerived(srcLM, oldLM, stage, clock) ==
  IF srcLM = 0 \/ stage = "get" THEN [put |-> FALSE, e |-> AnErr, lm |-> oldLM]
  ELSE IF stage \in {"decode", "encode"} THEN [put |-> FALSE, e |-> AnErr, lm |-> oldLM]
  ELSE IF stage = "put" THEN [put |-> TRUE, e |-> AnErr, lm |-> oldLM]
  ELSE [put |-> TRUE, e |-> NoErr, lm |-> clock]

(***************************************************************************)
(* The pond pool of a sweep: an unbounded FIFO queue and at most           *)
(* MaxCacheWorkers workers.                                                *)
(***************************************************************************)
Task(s, k, a, lm) == [s |-> s, k |-> k, a |-> a, lm |-> lm]

Submit(q, t) == Append(q, t)

RunningIn(s) == {t \in active : t.s = s}

PoolHasRoom(s) == Cardinality(RunningIn(s)) < MaxCacheWorkers

PoolIdle(s) == RunningIn(s) = {} /\ (queue[s] = <<>> \/ ctxCancelled)

(***************************************************************************)
(* Initial state: the process has started, setupCacheCreator's goroutine   *)
(* is about to call runner() for the first time.  Originals carry stamp 2. *)
(* Thumbnails and hero banners are stale (stamp 1) or missing; the poster  *)
(* of the last album may be missing from storage.                          *)
(***************************************************************************)
CacheInit ==
  /\ now = 2
  /\ \E lastLM \in {0, 2} : orig = [a \in Albums |-> IF a = NumAlbums THEN lastLM ELSE 2]
  /\ thumb = [a \in Albums |-> IF a % 2 = 1 THEN 1 ELSE 0]
  /\ hero = [a \in Albums |-> IF a % 2 = 0 THEN 1 ELSE 0]
  /\ homeOrig = 2
  /\ homeThumb = 1
  /\ ctxCancelled = FALSE
  /\ exited = FALSE
  /\ quit = "empty"
  /\ mainPc = "serving"
  /\ pc = "init"
  /\ running = TRUE
  /\ sweepNo = 0
  /\ ci = 1
  /\ ai = 1
  /\ albums = <<>>
  /\ albumImages = <<>>
  /\ err = NoErr
  /\ ownErr = NoErr
  /\ queue = [s \in Sweeps |-> <<>>]
  /\ active = {}
  /\ nFail = 0
  /\ puts = 0
  /\ failed = FALSE
  /\ prevFailed = FALSE
  /\ lastTouch = 0

(* runner's deferred function after CreateCache has returned; the locals of
   the invocation are gone *)
ReturnToScheduler ==
  /\ pc' = "idle"
  /\ running' = FALSE
  /\ ci' = 1
  /\ ai' = 1
  /\ albums' = <<>>
  /\ albumImages' = <<>>
  /\ err' = NoErr
  /\ ownErr' = NoErr

(***************************************************************************)
(* CreateCache, lines 101-130: ensureBucketExists (os.Exit(1) on error),   *)
(* clientService.GetAll (return on error), pond.NewPool.                   *)
(***************************************************************************)
CreateCacheBegin ==
  /\ sweepNo < MaxSweeps
  /\ \E bucketErr \in MayFail, clientsErr \in MayFail :
       /\ ~(bucketErr /\ clientsErr)
       /\ IF bucketErr
          THEN /\ exited' = TRUE
               /\ nFail' = nFail + 1
               /\ UNCHANGED <<schedVars, loopVars, puts, failed, prevFailed>>
          ELSE /\ exited' = exited
               /\ nFail' = nFail + Cnt(clientsErr)
               /\ puts' = 0
               /\ failed' = clientsErr
               /\ prevFailed' = failed
               /\ IF clientsErr
                  THEN ReturnToScheduler /\ sweepNo' = sweepNo + 1
                  ELSE /\ pc' = "home"
                       /\ sweepNo' = sweepNo + 1
                       /\ UNCHANGED <<running, loopVars>>
  /\ UNCHANGED <<zipVars, jobVars, janVars, webVars>>
  /\ UNCHANGED <<storeVars, ctxCancelled, quit, mainPc, poolVars, lastTouch>>

(* setupCacheCreator, line 314: the first runner() *)
RunnerFirst ==
  /\ ~exited
  /\ pc = "init"
  /\ CreateCacheBegin

(* setupCacheCreator, lines 321-327: a tick; skipped while "running" *)
TickerTick ==
  /\ ~exited
  /\ pc = "idle"
  /\ IF running THEN UNCHANGED vars ELSE CreateCacheBegin

(***************************************************************************)
(* updateHomePageCache (called at line 132): list the home originals, stat *)
(* each thumbnail, submit resizeWork for the stale or missing ones.  An    *)
(* error of the listing is logged by CreateCache; a stat error skips the   *)
(* image.                                                                  *)
(***************************************************************************)
updateHomePageCache ==
  /\ ~exited
  /\ pc = "home"
  /\ \E listErr \in MayFail, statErr \in MayFail :
       /\ ~(listErr /\ statErr)
       /\ statErr => homeOrig # 0
       /\ nFail' = nFail + Cnt(listErr) + Cnt(statErr)
       /\ failed' = (failed \/ listErr \/ statErr)
       /\ queue' = IF ~listErr /\ homeOrig # 0 /\ ~statErr
                      /\ homeThumbStale(homeThumb, homeOrig)
                    THEN [queue EXCEPT ![sweepNo] =
                            Submit(@, Task(sweepNo, "home", 0, homeOrig))]
                    ELSE queue
  /\ pc' = "listAlbums"
  /\ UNCHANGED <<zipVars, jobVars, janVars, webVars>>
  /\ UNCHANGED <<storeVars, procVars, running, sweepNo, loopVars, active, puts,
                 prevFailed, lastTouch>>

(***************************************************************************)
(* CreateCache, line 137, the call and the assignment:                     *)
(*   albums, err = c.albumService.GetAlbumList(client.ID)                  *)
(***************************************************************************)
ListAlbums ==
  /\ ~exited
  /\ pc = "listAlbums"
  /\ \E e \in MayFail :
       /\ nFail' = nFail + Cnt(e)
       /\ failed' = (failed \/ e)
       /\ albums' = IF e THEN <<>> ELSE GetAlbumList(ci)
       /\ err' = IF e THEN AnErr ELSE NoErr
       /\ ownErr' = IF e THEN AnErr ELSE NoErr
  /\ pc' = "chkAlbums"
  /\ UNCHANGED <<zipVars, jobVars, janVars, webVars>>
  /\ UNCHANGED <<storeVars, procVars, running, sweepNo, ci, ai, albumImages,
                 poolVars, puts, prevFailed, lastTouch>>

(* the range loops' steps to the next album, the next client, or line 173 *)
NextClient ==
  /\ IF ci < NumClients
     THEN ci' = ci + 1 /\ pc' = "listAlbums"
     ELSE ci' = 1 /\ pc' = "wait"
  /\ ai' = 1
  /\ albums' = <<>>

NextAlbum ==
  IF ai < Len(albums)
  THEN ai' = ai + 1 /\ ci' = ci /\ pc' = "album" /\ albums' = albums
  ELSE NextClient

(***************************************************************************)
(* CreateCache, lines 137-140, the test: err != nil -> return.  The        *)
(* variable read here is the one the running tasks assign.                 *)
(***************************************************************************)
CheckAlbums ==
  /\ ~exited
  /\ pc = "chkAlbums"
  /\ IF err # NoErr
     THEN ReturnToScheduler /\ sweepNo' = sweepNo
     ELSE /\ IF albums = <<>>
             THEN NextClient
             ELSE ai' = 1 /\ ci' = ci /\ pc' = "album" /\ albums' = albums
          /\ ownErr' = NoErr
          /\ UNCHANGED <<running, sweepNo, albumImages, err>>
  /\ UNCHANGED <<zipVars, jobVars, janVars, webVars>>
  /\ UNCHANGED <<storeVars, procVars, poolVars, histVars>>

(***************************************************************************)
(* getAlbumImageListing: the album's originals with a .jpg/.jpeg name.     *)
(***************************************************************************)
getAlbumImageListing(a) ==
  IF orig[a] # 0 THEN <<[a |-> a, lm |-> orig[a]]>> ELSE <<>>

(***************************************************************************)
(* CreateCache, lines 143-154: submit the hero task of the album, then     *)
(*   albumImages, err = c.getAlbumImageListing(album)                      *)
(***************************************************************************)
SubmitHeroAndList ==
  /\ ~exited
  /\ pc = "album"
  /\ LET a == albums[ai] IN
       /\ queue' = [queue EXCEPT ![sweepNo] = Submit(@, Task(sweepNo, "hero", a, 0))]
       /\ \E e \in MayFail :
            /\ nFail' = nFail + Cnt(e)
            /\ failed' = (failed \/ e)
            /\ albumImages' = IF e THEN <<>> ELSE getAlbumImageListing(a)
            /\ err' = IF e THEN AnErr ELSE NoErr
            /\ ownErr' = IF e THEN AnErr ELSE NoErr
  /\ pc' = "chkImages"
  /\ UNCHANGED <<zipVars, jobVars, janVars, webVars>>
  /\ UNCHANGED <<storeVars, procVars, running, sweepNo, ci, ai, albums, active,
                 puts, prevFailed, lastTouch>>

RECURSIVE SubmitAll(_, _, _)
SubmitAll(q, s, imgs) ==
  IF imgs = <<>> THEN q
  ELSE SubmitAll(Submit(q, Task(s, "thumb", Head(imgs).a, Head(imgs).lm)), s, Tail(imgs))

(***************************************************************************)
(* CreateCache, lines 154-169: err != nil -> return; otherwise submit one  *)
(* thumbnail task per listed original.                                     *)
(***************************************************************************)
CheckImages ==
  /\ ~exited
  /\ pc = "chkImages"
  /\ IF err # NoErr
     THEN ReturnToScheduler /\ sweepNo' = sweepNo /\ queue' = queue
     ELSE /\ queue' = [queue EXCEPT ![sweepNo] = SubmitAll(@, sweepNo, albumImages)]
          /\ NextAlbum
          /\ albumImages' = <<>>
          /\ ownErr' = NoErr
          /\ UNCHANGED <<running, sweepNo, err>>
  /\ UNCHANGED <<zipVars, jobVars, janVars, webVars>>
  /\ UNCHANGED <<storeVars, procVars, active, histVars>>

(* CreateCache, line 173: pool.Stop().Wait(), then the return *)
StopAndWait ==
  /\ ~exited
  /\ pc = "wait"
  /\ PoolIdle(sweepNo)
  /\ ReturnToScheduler
  /\ sweepNo' = sweepNo
  /\ UNCHANGED <<zipVars, jobVars, janVars, webVars>>
  /\ UNCHANGED <<storeVars, procVars, poolVars, histVars>>

(***************************************************************************)
(* A pond worker takes the task at the head of its pool's queue.  A pool   *)
(* whose context is cancelled dispatches nothing more.                     *)
(***************************************************************************)
TaskStart(s) ==
  /\ ~exited
  /\ ~ctxCancelled
  /\ queue[s] # <<>>
  /\ PoolHasRoom(s)
  /\ active' = active \cup {Head(queue[s])}
  /\ queue' = [queue EXCEPT ![s] = Tail(@)]
  /\ UNCHANGED <<zipVars, jobVars, janVars, webVars>>
  /\ UNCHANGED <<storeVars, procVars, schedVars, loopVars, histVars>>

(* the calls of a task that may be made to fail, by kind of task *)
Outcomes(k) ==
  {"ok"} \cup
  (IF nFail < MaxFailures
   THEN (CASE k = "thumb" -> {"stat"} \cup Stages
           [] k = "hero" -> {"stat", "stat2"} \cup Stages
           [] OTHER -> Stages)
   ELSE {})

(* An assignment to CreateCache's err by a closure.  The variable is the one
   of the closure's own invocation, and its value is read again only by the
   tests of lines 137 and 154: between an assignment of the loop and its
   test.  Elsewhere the loop assigns err anew before it reads it, so the
   closure's assignment is not kept. *)
ErrAfterTask(t, e) ==
  IF t.s = sweepNo /\ pc \in {"chkAlbums", "chkImages"} THEN e ELSE err

(* the result of a task that found nothing to create *)
NoOp(lm) == [put |-> FALSE, e |-> NoErr, lm |-> lm]

(* bookkeeping common to the three kinds of task *)
TaskBooks(t, o, r) ==
  /\ active' = active \ {t}
  /\ nFail' = nFail + Cnt(o # "ok")
  /\ puts' = IF t.s = sweepNo THEN puts + Cnt(r.put) ELSE puts
  /\ failed' = IF t.s = sweepNo THEN (failed \/ o # "ok" \/ r.e # NoErr) ELSE failed
  /\ prevFailed' = IF t.s = sweepNo - 1
                   THEN (prevFailed \/ o # "ok" \/ r.e # NoErr)
                   ELSE prevFailed

(***************************************************************************)
(* The closure of CreateCache lines 160-168:                               *)
(*   if !doesThumbnailExist(album, imageObj) {                             *)
(*       if err = createThumbnail(album, imageObj.Key); err != nil {log} } *)
(***************************************************************************)
ThumbTask(t) ==
  /\ ~exited
  /\ t \in active
  /\ t.k = "thumb"
  /\ \E o \in Outcomes("thumb") :
       LET exists == doesThumbnailExist(thumb[t.a], t.lm, o = "stat")
           r == IF exists THEN NoOp(thumb[t.a])
                ELSE createDerived(orig[t.a], thumb[t.a], o, now)
       IN /\ o \in Stages => ~exists /\ (o = "get" \/ orig[t.a] # 0)
          /\ thumb' = [thumb EXCEPT ![t.a] = r.lm]
          /\ err' = IF exists THEN err ELSE ErrAfterTask(t, r.e)
          /\ TaskBooks(t, o, r)
  /\ UNCHANGED <<zipVars, jobVars, janVars, webVars>>
  /\ UNCHANGED <<now, orig, hero, homeOrig, homeThumb, procVars, schedVars, ci, ai,
                 albums, albumImages, ownErr, queue, lastTouch>>

(***************************************************************************)
(* The closure of CreateCache lines 143-152:                               *)
(*   if !doesHeroExist(album) {                                            *)
(*       if err = createHeroBanner(album); err != nil {log; return} }      *)
(***************************************************************************)
HeroTask(t) ==
  /\ ~exited
  /\ t \in active
  /\ t.k = "hero"
  /\ \E o \in Outcomes("hero") :
       LET exists == doesHeroExist(hero[t.a], orig[t.a], o = "stat", o = "stat2")
           r == IF exists THEN NoOp(hero[t.a])
                ELSE createDerived(orig[t.a], hero[t.a], o, now)
       IN /\ o \in Stages => ~exists /\ (o = "get" \/ orig[t.a] # 0)
          /\ hero' = [hero EXCEPT ![t.a] = r.lm]
          /\ err' = IF exists THEN err ELSE ErrAfterTask(t, r.e)
          /\ TaskBooks(t, o, r)
  /\ UNCHANGED <<zipVars, jobVars, janVars, webVars>>
  /\ UNCHANGED <<now, orig, thumb, homeOrig, homeThumb, procVars, schedVars, ci, ai,
                 albums, albumImages, ownErr, queue, lastTouch>>

(***************************************************************************)
(* The closure of updateHomePageCache lines 260-262: resizeWork, whose err *)
(* is a variable of its own.                                               *)
(***************************************************************************)
HomeTask(t) ==
  /\ ~exited
  /\ t \in active
  /\ t.k = "home"
  /\ \E o \in Outcomes("home") :
       LET r == createDerived(homeOrig, homeThumb, o, now)
       IN /\ o \in Stages => (o = "get" \/ homeOrig # 0)
          /\ homeThumb' = r.lm
          /\ TaskBooks(t, o, r)
  /\ UNCHANGED <<zipVars, jobVars, janVars, webVars>>
  /\ UNCHANGED <<now, orig, thumb, hero, homeOrig, procVars, schedVars, loopVars,
                 queue, lastTouch>>

(***************************************************************************)
(* The environment.  Between two sweeps someone uploads a new version of   *)
(* the first album's original; the shutdown signal arrives on the channel  *)
(* quit, from which both main and the scheduler goroutine receive.         *)
(***************************************************************************)
UploadOriginal ==
  /\ ~exited
  /\ pc = "idle"
  /\ now < MaxClock
  /\ now' = now + 1
  /\ orig' = [orig EXCEPT ![1] = now + 1]
  /\ lastTouch' = sweepNo
  /\ UNCHANGED <<zipVars, jobVars, janVars, webVars>>
  /\ UNCHANGED <<thumb, hero, homeOrig, homeThumb, procVars, schedVars, loopVars,
                 poolVars, nFail, puts, failed, prevFailed>>

(* the operating system delivers the shutdown signal: a value is sent on
   the channel mux.SetupServer returned (main, line 225) *)
Signal ==
  /\ ~exited
  /\ quit = "empty"
  /\ quit' = "signal"
  /\ UNCHANGED <<zipVars, jobVars, janVars, webVars>>
  /\ UNCHANGED <<storeVars, ctxCancelled, exited, mainPc, schedVars, loopVars,
                 poolVars, histVars>>

(* main, lines 243-245: <-quit; cancel() *)
Shutdown ==
  /\ ~exited
  /\ mainPc = "serving"
  /\ quit = "signal"
  /\ quit' = "taken"
  /\ mainPc' = "shutdown"
  /\ ctxCancelled' = TRUE
  /\ UNCHANGED <<zipVars, jobVars, janVars, webVars>>
  /\ UNCHANGED <<storeVars, exited, schedVars, loopVars, poolVars, histVars>>

(* main, lines 246-248: mux.Shutdown(httpServer), then main returns and the
   process ends with it *)
MainReturns ==
  /\ ~exited
  /\ mainPc = "shutdown"
  /\ mainPc' = "returned"
  /\ exited' = TRUE
  /\ UNCHANGED <<zipVars, jobVars, janVars, webVars>>
  /\ UNCHANGED <<storeVars, ctxCancelled, quit, schedVars, loopVars, poolVars,
                 histVars>>

(* setupCacheCreator, lines 318-319: case <-quit: return *)
SchedulerQuits ==
  /\ ~exited
  /\ pc = "idle"
  /\ quit = "signal"
  /\ quit' = "taken"
  /\ pc' = "stopped"
  /\ UNCHANGED <<zipVars, jobVars, janVars, webVars>>
  /\ UNCHANGED <<storeVars, ctxCancelled, exited, mainPc, running, sweepNo,
                 loopVars, poolVars, histVars>>

(***************************************************************************)
(* Strings, as sequences of one-character strings.                         *)
(***************************************************************************)
Digits == <<"0", "1", "2", "3", "4", "5", "6", "7", "8", "9">>

(* a variant of ReplaceAll that replaces the first occurrence only *)
RECURSIVE ReplaceFirst(_, _, _)
ReplaceFirst(str, old, new) ==
  IF str = <<>> THEN <<>>
  ELSE IF Head(str) = old THEN <<new>> \o Tail(str)
  ELSE <<Head(str)>> \o ReplaceFirst(Tail(str), old, new)

(* strings.ReplaceAll(s, old, new) for one-character old and new *)
RECURSIVE ReplaceAll(_, _, _)
ReplaceAll(str, old, new) ==
  IF str = <<>> THEN <<>>
  ELSE (IF Head(str) = old THEN <<new>> ELSE <<Head(str)>>)
         \o ReplaceAll(Tail(str), old, new)

(* the verb %d of fmt.Sprintf applied to a uint *)
RECURSIVE Itoa(_)
Itoa(n) ==
  IF n < 10 THEN <<Digits[n + 1]>>
  ELSE Itoa(n \div 10) \o <<Digits[(n % 10) + 1]>>

(* CreateZipAsync, line 64:
   fmt.Sprintf("%s-%d", strings.ReplaceAll(album.Name, " ", "-"), album.ID) *)
JobID(name, id) == ReplaceAll(name, " ", "-") \o <<"-">> \o Itoa(id)

(* CreateZipAsync, line 65: fmt.Sprintf("%s.zip", jobID) *)
ZipFilename(jobID) == jobID \o <<".", "z", "i", "p">>

SpringShoot == <<"S", "p", "r", "i", "n", "g", " ", "S", "h", "o", "o", "t">>

(***************************************************************************)
(* Archive Builder: the albums a download is requested for.                *)
(***************************************************************************)
ZipAlbums == 1..NumZipAlbums
CallIDs == 1..MaxCalls

ZipAlbum(a) ==
  IF a = 1 THEN [ID |-> 7, Name |-> SpringShoot]
  ELSE [ID |-> 10 + a, Name |-> <<"a", " ", "b">>]

ZipMayFail == IF zFail < MaxZipFailures THEN {FALSE, TRUE} ELSE {FALSE}

ErrOf(b) == IF b THEN AnErr ELSE NoErr

NoCall ==
  [a |-> 0, st |-> "none", statN |-> 0, objAtStat |-> FALSE, statErr |-> NoErr,
   objectData |-> FALSE, mails |-> 0, started |-> 0, job |-> <<>>, err |-> NoErr]

(* todo: the listed keys not yet visited; entries: what zipWriter holds;
   errs: calls of this build that returned an error *)
NoBuild ==
  [pc |-> "none", stream |-> "none", streams |-> 0, todo |-> <<>>, entries |-> <<>>,
   writes |-> 0, mails |-> 0, failed |-> FALSE, errs |-> 0, srcOpen |-> 0]

(* the keys S3Client.List returns for the originals of album a, in the
   order storage lists them *)
ZipOriginals(a) == [i \in 1..NumZipFiles |-> <<"originals", a, i>>]

(* filepath.Base: the last element of the path *)
Base(key) == key[Len(key)]

(* an entry of the archive: its name, and whether all its bytes were copied *)
Entry(name, complete) == [name |-> name, complete |-> complete]

(* no call has been made; the archive of the last album may be left from an
   earlier run of the process *)
ZipInit ==
  /\ \E left \in BOOLEAN : zipObj = [a \in ZipAlbums |-> a = NumZipAlbums /\ left]
  /\ calls = [c \in CallIDs |-> NoCall]
  /\ nCalls = 0
  /\ build = [c \in CallIDs |-> NoBuild]
  /\ zFail = 0
  /\ zipData = [a \in ZipAlbums |->
                  IF zipObj[a]
                  THEN [i \in 1..NumZipFiles |-> Entry(Base(ZipOriginals(a)[i]), TRUE)]
                  ELSE <<>>]

(* a variant of the test of line 76 that leaves out objectData != nil *)
statSucceeded(statErr, objectData) == statErr = NoErr

(* CreateZipAsync, line 76, the test: err == nil && objectData != nil *)
alreadyExists(statErr, objectData) == statErr = NoErr /\ objectData

(* a variant of CreateZipAsyncOutcome that starts processZip in either case *)
notifyAndRebuild(name, id, statErr, objectData, mailErr) ==
  IF alreadyExists(statErr, objectData)
  THEN [job |-> JobID(name, id), err |-> mailErr, mail |-> TRUE, go |-> TRUE]
  ELSE [job |-> JobID(name, id), err |-> NoErr, mail |-> FALSE, go |-> TRUE]

(***************************************************************************)
(* CreateZipAsync, lines 76-105, after the stat: when the archive already  *)
(* exists, SendEmail and return (jobID, err of the send); otherwise        *)
(* go processZip and return (jobID, nil).                                  *)
(***************************************************************************)
CreateZipAsyncOutcome(name, id, statErr, objectData, mailErr) ==
  IF alreadyExists(statErr, objectData)
  THEN [job |-> JobID(name, id), err |-> mailErr, mail |-> TRUE, go |-> FALSE]
  ELSE [job |-> JobID(name, id), err |-> NoErr, mail |-> FALSE, go |-> TRUE]

(***************************************************************************)
(* CreateZipAsync, lines 58-76: the call of StatObject on the archive key. *)
(***************************************************************************)
CreateZipAsyncStat(a) ==
  /\ nCalls < MaxCalls
  /\ nCalls' = nCalls + 1
  /\ \E e \in ZipMayFail :
       /\ zFail' = zFail + Cnt(e)
       /\ calls' = [calls EXCEPT ![nCalls + 1] =
                      [NoCall EXCEPT !.a = a, !.st = "statted", !.statN = 1,
                                     !.objAtStat = zipObj[a],
                                     !.statErr = ErrOf(e),
                                     !.objectData = (~e /\ zipObj[a])]]
  /\ UNCHANGED <<zipObj, zipData, build>>
  /\ UNCHANGED <<cacheVars, jobVars, janVars, webVars>>

(* the build of call c is under way *)
InProgress(builds, c) == builds[c].pc \notin {"none", "done"}

(* a variant of GoProcessZip that starts no second build for an album *)
GoProcessZipOnce(builds, c) ==
  IF \E d \in CallIDs \ {c} : calls[d].a = calls[c].a /\ InProgress(builds, d)
  THEN builds
  ELSE [builds EXCEPT ![c].pc = "putStream"]

(* CreateZipAsync, line 103: go s.processZip(zipKey, zipFilename, album, client) *)
GoProcessZip(builds, c) == [builds EXCEPT ![c].pc = "putStream"]

(***************************************************************************)
(* CreateZipAsync, lines 76-105: the branch on the stat and the return.    *)
(***************************************************************************)
CreateZipAsyncAct(c) ==
  /\ calls[c].st = "statted"
  /\ \E e \in ZipMayFail :
       LET call == calls[c]
           r == CreateZipAsyncOutcome(ZipAlbum(call.a).Name, ZipAlbum(call.a).ID,
                                      call.statErr, call.objectData, ErrOf(e))
       IN /\ e => r.mail
          /\ zFail' = zFail + Cnt(e)
          /\ calls' = [calls EXCEPT ![c] =
                         [call EXCEPT !.st = "returned",
                                      !.mails = @ + Cnt(r.mail),
                                      !.started = @ + Cnt(r.go),
                                      !.job = r.job, !.err = r.err]]
          /\ build' = IF r.go THEN GoProcessZip(build, c) ELSE build
  /\ UNCHANGED <<zipObj, zipData, nCalls>>
  /\ UNCHANGED <<cacheVars, jobVars, janVars, webVars>>

(***************************************************************************)
(* processZip, lines 108-208, one goroutine per call that found no         *)
(* archive.  The object appears at the archive key when the upload of the  *)
(* stream has completed (stream.Wait).                                     *)
(***************************************************************************)
ZipFrame == UNCHANGED <<calls, nCalls>> /\ UNCHANGED <<cacheVars, jobVars, janVars, webVars>>

(* a variant of PutStream on a store that shows an object as soon as its
   upload has begun *)
PutStreamVisibleAtOnce(c) ==
  /\ build[c].pc = "putStream"
  /\ \E e \in ZipMayFail :
       /\ zFail' = zFail + Cnt(e)
       /\ build' = IF e
                   THEN [build EXCEPT ![c].pc = "done", ![c].failed = TRUE,
                                      ![c].errs = @ + 1]
                   ELSE [build EXCEPT ![c].pc = "list", ![c].stream = "open",
                                      ![c].streams = @ + 1]
       /\ zipObj' = IF e THEN zipObj ELSE [zipObj EXCEPT ![calls[c].a] = TRUE]
       /\ zipData' = IF e THEN zipData ELSE [zipData EXCEPT ![calls[c].a] = <<>>]
  /\ ZipFrame

(* line 144: S3Client.PutStream; on error log and return *)
PutStream(c) ==
  /\ build[c].pc = "putStream"
  /\ \E e \in ZipMayFail :
       /\ zFail' = zFail + Cnt(e)
       /\ build' = IF e
                   THEN [build EXCEPT ![c].pc = "done", ![c].failed = TRUE,
                                      ![c].errs = @ + 1]
                   ELSE [build EXCEPT ![c].pc = "list", ![c].stream = "open",
                                      ![c].streams = @ + 1]
  /\ UNCHANGED <<zipObj, zipData>>
  /\ ZipFrame

(* lines 151-157: S3Client.List of the originals; on error log and return,
   the stream is left open *)
ListOriginals(c) ==
  /\ build[c].pc = "list"
  /\ \E e \in ZipMayFail :
       /\ zFail' = zFail + Cnt(e)
       /\ build' = IF e
                   THEN [build EXCEPT ![c].pc = "done", ![c].failed = TRUE,
                                      ![c].errs = @ + 1]
                   ELSE [build EXCEPT ![c].pc = IF NumZipFiles = 0 THEN "closeZip" ELSE "add",
                                      ![c].todo = ZipOriginals(calls[c].a)]
  /\ UNCHANGED <<zipObj, zipData>>
  /\ ZipFrame

(* addFile, lines 119-142: S3Client.Get, zipWriter.Create(imageName),
   io.Copy.  "stage" names the call that fails ("ok": none).  Create has
   begun the entry when Copy fails. *)
AddFileStages == {"get", "create", "copy"}

(* a variant of addFile that puts the new entry before the others *)
addFileInFront(entries, key, stage) ==
  IF stage \in {"get", "create"} THEN entries
  ELSE IF stage = "copy" THEN <<Entry(Base(key), FALSE)>> \o entries
  ELSE <<Entry(Base(key), TRUE)>> \o entries

addFile(entries, key, stage) ==
  IF stage \in {"get", "create"} THEN entries
  ELSE IF stage = "copy" THEN Append(entries, Entry(Base(key), FALSE))
  ELSE Append(entries, Entry(Base(key), TRUE))

(* addFile, lines 123-139: the body of the object fetched by Get is closed
   by the defer of line 135, which the return of line 132 (Create failed)
   does not reach; when Get fails there is no body *)
srcBodyLeftOpen(stage) == stage = "create"

(* lines 159-164: one round of the loop; an image that fails is logged and
   the loop goes on *)
AddFile(c) ==
  /\ build[c].pc = "add"
  /\ build[c].todo # <<>>
  /\ \E stage \in {"ok"} \cup (IF zFail < MaxZipFailures THEN AddFileStages ELSE {}) :
       /\ zFail' = zFail + Cnt(stage # "ok")
       /\ build' = [build EXCEPT ![c].todo = Tail(@),
                                 ![c].entries = addFile(@, Head(build[c].todo), stage),
                                 ![c].errs = @ + Cnt(stage # "ok"),
                                 ![c].srcOpen = @ + Cnt(srcBodyLeftOpen(stage)),
                                 ![c].pc = IF Len(build[c].todo) = 1 THEN "closeZip" ELSE "add"]
  /\ UNCHANGED <<zipObj, zipData>>
  /\ ZipFrame

(* lines 166-169: zipWriter.Close; on error log and return *)
CloseZipWriter(c) ==
  /\ build[c].pc = "closeZip"
  /\ \E e \in ZipMayFail :
       /\ zFail' = zFail + Cnt(e)
       /\ build' = IF e
                   THEN [build EXCEPT ![c].pc = "done", ![c].failed = TRUE,
                                      ![c].errs = @ + 1]
                   ELSE [build EXCEPT ![c].pc = "closeStream"]
  /\ UNCHANGED <<zipObj, zipData>>
  /\ ZipFrame

(* lines 171-174: stream.Writer.Close; on error log and return *)
CloseStreamWriter(c) ==
  /\ build[c].pc = "closeStream"
  /\ \E e \in ZipMayFail :
       /\ zFail' = zFail + Cnt(e)
       /\ build' = IF e
                   THEN [build EXCEPT ![c].pc = "done", ![c].failed = TRUE,
                                      ![c].errs = @ + 1]
                   ELSE [build EXCEPT ![c].pc = "wait", ![c].stream = "closed"]
  /\ UNCHANGED <<zipObj, zipData>>
  /\ ZipFrame

(* a variant of WaitStream that goes on to the notification when the wait
   has failed *)
WaitStreamThenNotify(c) ==
  /\ build[c].pc = "wait"
  /\ \E e \in ZipMayFail :
       /\ zFail' = zFail + Cnt(e)
       /\ build' = IF e
                   THEN [build EXCEPT ![c].pc = "email", ![c].failed = TRUE,
                                      ![c].stream = "failed", ![c].errs = @ + 1]
                   ELSE [build EXCEPT ![c].pc = "email", ![c].stream = "done",
                                      ![c].writes = @ + 1]
       /\ zipObj' = IF e THEN zipObj ELSE [zipObj EXCEPT ![calls[c].a] = TRUE]
       /\ zipData' = IF e THEN zipData
                     ELSE [zipData EXCEPT ![calls[c].a] = build[c].entries]
  /\ ZipFrame

(* lines 176-181: stream.Wait; on error log and return.  The upload puts
   what zipWriter wrote at the archive key. *)
WaitStream(c) ==
  /\ build[c].pc = "wait"
  /\ \E e \in ZipMayFail :
       /\ zFail' = zFail + Cnt(e)
       /\ build' = IF e
                   THEN [build EXCEPT ![c].pc = "done", ![c].failed = TRUE,
                                      ![c].stream = "failed", ![c].errs = @ + 1]
                   ELSE [build EXCEPT ![c].pc = "email", ![c].stream = "done",
                                      ![c].writes = @ + 1]
       /\ zipObj' = IF e THEN zipObj ELSE [zipObj EXCEPT ![calls[c].a] = TRUE]
       /\ zipData' = IF e THEN zipData
                     ELSE [zipData EXCEPT ![calls[c].a] = build[c].entries]
  /\ ZipFrame

(* a variant of NotifyReady that removes the archive when the send fails *)
NotifyReadyOrRemove(c) ==
  /\ build[c].pc = "email"
  /\ \E e \in ZipMayFail :
       /\ zFail' = zFail + Cnt(e)
       /\ build' = [build EXCEPT ![c].pc = "done", ![c].mails = @ + 1,
                                 ![c].failed = e, ![c].errs = @ + Cnt(e)]
       /\ zipObj' = IF e THEN [zipObj EXCEPT ![calls[c].a] = FALSE] ELSE zipObj
  /\ UNCHANGED zipData
  /\ ZipFrame

(* lines 186-207: SendEmail; an error is logged *)
NotifyReady(c) ==
  /\ build[c].pc = "email"
  /\ \E e \in ZipMayFail :
       /\ zFail' = zFail + Cnt(e)
       /\ build' = [build EXCEPT ![c].pc = "done", ![c].mails = @ + 1,
                                 ![c].failed = e, ![c].errs = @ + Cnt(e)]
  /\ UNCHANGED <<zipObj, zipData>>
  /\ ZipFrame

ZipNext ==
  \/ \E a \in ZipAlbums : CreateZipAsyncStat(a)
  \/ \E c \in CallIDs : CreateZipAsyncAct(c)
  \/ \E c \in CallIDs : PutStream(c)
  \/ \E c \in CallIDs : ListOriginals(c)
  \/ \E c \in CallIDs : AddFile(c)
  \/ \E c \in CallIDs : CloseZipWriter(c)
  \/ \E c \in CallIDs : CloseStreamWriter(c)
  \/ \E c \in CallIDs : WaitStream(c)
  \/ \E c \in CallIDs : NotifyReady(c)

(***************************************************************************)
(* One CreateZipAsync taken alone: album.Name and album.ID are arbitrary,  *)
(* the stat finds the archive or not or fails, the send fails or not.      *)
(***************************************************************************)
Alphabet == {"a", " ", "-"}
Names == UNION {[1..n -> Alphabet] : n \in 0..MaxNameLen} \cup {SpringShoot}
AlbumIDs == 0..MaxAlbumID

NoRet == [job |-> <<>>, err |-> NoErr, mail |-> FALSE, go |-> FALSE]

JobInit ==
  /\ jName \in Names
  /\ jID \in AlbumIDs
  /\ jPc = "call"
  /\ jRet = NoRet

CreateZipAsync ==
  /\ jPc = "call"
  /\ \E statErr \in {NoErr, AnErr}, objectData \in BOOLEAN, mailErr \in {NoErr, AnErr} :
       /\ statErr = AnErr => ~objectData
       /\ jRet' = CreateZipAsyncOutcome(jName, jID, statErr, objectData, mailErr)
  /\ jPc' = "returned"
  /\ UNCHANGED <<jName, jID>>
  /\ UNCHANGED <<cacheVars, zipVars, janVars, webVars>>

JobNext == CreateZipAsync

(***************************************************************************)
(* The janitor: StartCleanupRoutine, StopCleanupRoutine and the goroutine  *)
(* between them.  The methods of ZipService have value receivers: each     *)
(* call works on a copy of the value main holds; wg is a pointer and is    *)
(* shared by the copies.                                                   *)
(***************************************************************************)
NilTicker == "nil"
ChanOfNew == 0
ChanOfStart == 1

(* NewZipService, lines 51-55 *)
NewZipService == [cleanupTicker |-> NilTicker, stopCleanup |-> ChanOfNew]

(* a variant of ReceiverAfterCall for methods with pointer receivers *)
PointerReceiverAfterCall(held, s) == s

(* what the caller's ZipService value is after a method has assigned to the
   fields of its receiver s: the method had a copy, the value is as before *)
ReceiverAfterCall(held, s) == held

NoSweep ==
  [pc |-> "none", cutoff |-> 0, ci |-> 0, albums |-> <<>>, files |-> <<>>]

NoJanitor == [pc |-> "none", s |-> NewZipService, tickerStopped |-> FALSE]

(* StartCleanupRoutine, lines 211-231; main calls it once, line 230 *)
StartCleanupRoutine ==
  /\ jan.pc = "none"
  /\ LET s == [svc EXCEPT !.stopCleanup = ChanOfStart, !.cleanupTicker = "ticker"]
     IN /\ jan' = [pc |-> "select", s |-> s, tickerStopped |-> FALSE]
        /\ svc' = ReceiverAfterCall(svc, s)
  /\ wg' = wg + 1
  /\ UNCHANGED <<chClosed, stopPc, nStops, panicked, janNow, janStore, sweep, janHist>>
  /\ UNCHANGED <<cacheVars, zipVars, jobVars, webVars>>

(***************************************************************************)
(* StopCleanupRoutine, lines 234-240: when s.cleanupTicker is not nil,     *)
(* close(s.stopCleanup), then s.wg.Wait(); the call returns when the       *)
(* counter is zero.                                                        *)
(***************************************************************************)
StopCleanupRoutine ==
  /\ nStops < MaxStops
  /\ ~panicked
  /\ stopPc = "waiting" => wg = 0
  /\ LET s == svc
         returns == stopPc = "waiting" \/ s.cleanupTicker = NilTicker
         closes == stopPc = "idle" /\ s.cleanupTicker # NilTicker
     IN /\ panicked' = (closes /\ s.stopCleanup \in chClosed)
        /\ chClosed' = IF closes THEN chClosed \cup {s.stopCleanup} ELSE chClosed
        /\ stopPc' = IF closes /\ s.stopCleanup \notin chClosed THEN "waiting" ELSE "idle"
        /\ nStops' = nStops + Cnt(returns)
        /\ janHist' = IF returns /\ jan.pc # "none"
                      THEN [janHist EXCEPT !.stops = @ + 1,
                              !.sweepAtStop = IF jan.pc = "sweeping" /\ @ = 0
                                              THEN janHist.nSweeps ELSE @]
                      ELSE janHist
  /\ UNCHANGED <<svc, jan, wg, janNow, janStore, sweep>>
  /\ UNCHANGED <<cacheVars, zipVars, jobVars, webVars>>

(***************************************************************************)
(* The objects the janitor can meet.  A key is the sequence of its path    *)
(* elements followed by the characters of the file name, so that ToLower   *)
(* and HasSuffix work on it as they do on the string.                      *)
(***************************************************************************)
ZipName == <<"a", ".", "z", "i", "p">>
UpperZipName == <<"b", ".", "Z", "I", "P">>
TxtName == <<"c", ".", "t", "x", "t">>
FileNames == <<ZipName, UpperZipName, TxtName>>
DotZip == <<".", "z", "i", "p">>

UpperChars == {"Z", "I", "P", "J", "E", "G"}
LowerOf(ch) ==
  CASE ch = "Z" -> "z" [] ch = "I" -> "i" [] ch = "P" -> "p"
    [] ch = "J" -> "j" [] ch = "E" -> "e" [] ch = "G" -> "g" [] OTHER -> ch

(* strings.ToLower *)
ToLower(str) == [i \in 1..Len(str) |-> IF str[i] \in UpperChars THEN LowerOf(str[i]) ELSE str[i]]

(* strings.HasPrefix, strings.HasSuffix *)
HasPrefix(str, pre) == Len(str) >= Len(pre) /\ SubSeq(str, 1, Len(pre)) = pre
HasSuffix(str, suf) ==
  Len(str) >= Len(suf) /\ SubSeq(str, Len(str) - Len(suf) + 1, Len(str)) = suf

(* a variant of IsZip that compares the key as it is spelled *)
IsZipCaseSensitive(key) == HasSuffix(key, DotZip)

(* line 285: the files that are processed *)
IsZip(key) == HasSuffix(ToLower(key), DotZip)

(* filepath.Join(ClientPhotoFolder, ClientID, ID, dir), lines 269-274 *)
FolderKey(a, dir) ==
  <<"clients", "/">> \o Itoa(ClientOf(a)) \o <<"/">> \o Itoa(a) \o <<"/", dir>>
(* a variant of DownloadsKey: the folder of the album itself *)
AlbumFolderKey(a) == <<"clients", "/">> \o Itoa(ClientOf(a)) \o <<"/">> \o Itoa(a)

DownloadsKey(a) == FolderKey(a, "downloads")

ObjectKey(a, dir, name) == FolderKey(a, dir) \o <<"/">> \o name

JanKeysOf(a) ==
  [i \in 1..(Len(FileNames) + 1) |->
     IF i <= Len(FileNames) THEN ObjectKey(a, "downloads", FileNames[i])
     ELSE ObjectKey(a, "originals", ZipName)]
JanKeys == UNION {{JanKeysOf(a)[i] : i \in 1..(Len(FileNames) + 1)} : a \in Albums}
AlbumOfKey(k) == CHOOSE a \in Albums : \E i \in 1..(Len(FileNames) + 1) : JanKeysOf(a)[i] = k

RECURSIVE KeysInOrder(_)
KeysInOrder(n) == IF n = 0 THEN <<>> ELSE KeysInOrder(n - 1) \o JanKeysOf(n)

(* S3Client.List(bucket, prefix): the objects under the prefix, in key order *)
ListObjects(store, prefix) ==
  SelectSeq(KeysInOrder(NumAlbums), LAMBDA k : store[k] # 0 /\ HasPrefix(k, prefix))

(***************************************************************************)
(* The clock counts days.  At the start the cutoff of a sweep is day       *)
(* Today - ExpirationDays; objects are aged around it.                     *)
(***************************************************************************)
Today == ExpirationDays + 3
Aged(days) == Today - days

(* lastModified by file index, 0: no such object *)
Layouts ==
  { <<Aged(8), Aged(8), 0, 0>>,           \* two expired archives
    <<Aged(7), 0, Aged(8), 0>>,           \* an archive on the cutoff, an old text file
    <<Aged(1), 0, 0, Aged(8)>>,           \* a fresh archive, an old .zip among the originals
    <<0, 0, 0, 0>> }

StoreOf(layout) ==
  [k \in JanKeys |->
     LET a == AlbumOfKey(k)
         i == CHOOSE j \in 1..(Len(FileNames) + 1) : JanKeysOf(a)[j] = k
     IN layout[a][i]]

(* no ready notification has been sent *)
NoNotice == [key |-> <<>>, at |-> 0]

NoHist ==
  [notice |-> NoNotice, stops |-> 0, sweepAtStop |-> 0, begunAfterStop |-> FALSE,
   callAfterStop |-> FALSE,
   deleted |-> {}, clean |-> TRUE, catalogFailed |-> FALSE, listed |-> {}, listFailed |-> {},
   delFailed |-> {}, examined |-> {}, nSweeps |-> 0, nFail |-> 0, days |-> 0]

JanInit ==
  /\ svc = NewZipService
  /\ jan = NoJanitor
  /\ chClosed = {}
  /\ wg = 0
  /\ stopPc = "idle"
  /\ nStops = 0
  /\ panicked = FALSE
  /\ janNow = Today
  /\ \E layout \in [Albums -> Layouts] : janStore = StoreOf(layout)
  /\ sweep = NoSweep
  /\ janHist = NoHist

JanMayFail == IF janHist.nFail < MaxJanFailures THEN {FALSE, TRUE} ELSE {FALSE}

JanFrame ==
  /\ UNCHANGED <<svc, chClosed, stopPc, nStops, panicked, janNow>>
  /\ UNCHANGED <<cacheVars, zipVars, jobVars, webVars>>

(* a day passes *)
DayPasses ==
  /\ janHist.days < MaxDays
  /\ janNow' = janNow + 1
  /\ janHist' = [janHist EXCEPT !.days = @ + 1]
  /\ UNCHANGED <<svc, jan, chClosed, wg, stopPc, nStops, panicked, janStore, sweep>>
  /\ UNCHANGED <<cacheVars, zipVars, jobVars, webVars>>

(***************************************************************************)
(* The select of the goroutine, lines 218-226: a tick starts               *)
(* cleanupExpiredZips; a closed stop channel stops the ticker and ends the *)
(* goroutine (the deferred wg.Done).  When both are ready either is taken. *)
(***************************************************************************)
ReadyCases ==
  (IF janHist.nSweeps < MaxJanSweeps THEN {"tick"} ELSE {})
  \cup (IF jan.s.stopCleanup \in chClosed THEN {"stop"} ELSE {})

JanitorSelect ==
  /\ jan.pc = "select"
  /\ \E case \in ReadyCases :
       IF case = "tick"
       THEN /\ jan' = [jan EXCEPT !.pc = "sweeping"]
            /\ sweep' = [NoSweep EXCEPT !.pc = "begin"]
            /\ janHist' = [janHist EXCEPT !.nSweeps = @ + 1,
                             !.begunAfterStop = @ \/ janHist.stops > 0,
                             !.clean = TRUE, !.catalogFailed = FALSE, !.listed = {}, !.listFailed = {},
                             !.delFailed = {}, !.examined = {}]
            /\ wg' = wg
       ELSE /\ jan' = [jan EXCEPT !.pc = "exited", !.tickerStopped = TRUE]
            /\ wg' = wg - 1
            /\ UNCHANGED <<sweep, janHist>>
  /\ UNCHANGED janStore
  /\ JanFrame

(* the return of cleanupExpiredZips, back in the select *)
SweepReturn(sw) == [sw EXCEPT !.pc = "done", !.albums = <<>>, !.files = <<>>]

(* lines 254-260: the cutoff, then ClientService.GetAll *)
CleanupBegin ==
  /\ sweep.pc = "begin"
  /\ \E fails \in JanMayFail :
       IF fails
       THEN /\ sweep' = SweepReturn([sweep EXCEPT !.cutoff = janNow - ExpirationDays])
            /\ jan' = [jan EXCEPT !.pc = "select"]
            /\ janHist' = [janHist EXCEPT !.nFail = @ + 1, !.clean = FALSE,
                                   !.catalogFailed = TRUE]
       ELSE /\ sweep' = [sweep EXCEPT !.pc = "client", !.ci = 1,
                                      !.cutoff = janNow - ExpirationDays]
            /\ UNCHANGED <<jan, janHist>>
  /\ UNCHANGED <<wg, janStore>>
  /\ JanFrame

(* lines 262-266 and 302: the next client's albums, or the end of the sweep *)
CleanupListAlbums ==
  /\ sweep.pc = "client"
  /\ IF sweep.ci > NumClients
     THEN /\ sweep' = SweepReturn(sweep)
          /\ jan' = [jan EXCEPT !.pc = "select"]
          /\ UNCHANGED janHist
     ELSE \E fails \in JanMayFail :
            IF fails
            THEN /\ sweep' = SweepReturn(sweep)
                 /\ jan' = [jan EXCEPT !.pc = "select"]
                 /\ janHist' = [janHist EXCEPT !.nFail = @ + 1, !.clean = FALSE,
                                   !.catalogFailed = TRUE]
            ELSE /\ sweep' = [sweep EXCEPT !.pc = "album",
                                           !.albums = GetAlbumList(sweep.ci)]
                 /\ UNCHANGED <<jan, janHist>>
  /\ UNCHANGED <<wg, janStore>>
  /\ JanFrame

(* lines 268-280: List of the next album's downloads folder *)
CleanupListDownloads ==
  /\ sweep.pc = "album"
  /\ IF sweep.albums = <<>>
     THEN /\ sweep' = [sweep EXCEPT !.pc = "client", !.ci = @ + 1]
          /\ UNCHANGED janHist
     ELSE LET a == Head(sweep.albums)
          IN \E fails \in JanMayFail :
               /\ sweep' = [sweep EXCEPT !.albums = Tail(@),
                              !.pc = IF fails THEN "album" ELSE "file",
                              !.files = IF fails THEN <<>>
                                        ELSE ListObjects(janStore, DownloadsKey(a))]
               /\ janHist' = [janHist EXCEPT !.nFail = @ + Cnt(fails),
                                !.clean = @ /\ ~fails,
                                !.listed = @ \cup {a},
                                !.listFailed = @ \cup (IF fails THEN {a} ELSE {}),
                                !.callAfterStop = @ \/ janHist.sweepAtStop = janHist.nSweeps]
  /\ UNCHANGED <<jan, wg, janStore>>
  /\ JanFrame

(* a variant of Expired that takes the cutoff itself as expired *)
ExpiredOrOnCutoff(lastModified, cutoff) == lastModified <= cutoff

(* line 290 *)
Expired(lastModified, cutoff) == Before(lastModified, cutoff)

(* a variant of RestAfterDelete that leaves the loop when Delete fails *)
RestSkippedWhenDeleteFails(files, fails) == IF fails THEN <<>> ELSE Tail(files)

(* lines 293-299: the files still to examine after a file has been dealt
   with; a failed Delete is logged and the loop goes on *)
RestAfterDelete(files, fails) == Tail(files)

(* lines 283-299: one file of the listing *)
CleanupFile ==
  /\ sweep.pc = "file"
  /\ IF sweep.files = <<>>
     THEN /\ sweep' = [sweep EXCEPT !.pc = "album"]
          /\ UNCHANGED <<janStore, janHist>>
     ELSE LET key == Head(sweep.files)
              deletes == IsZip(key) /\ Expired(janStore[key], sweep.cutoff)
          IN \E fails \in (IF deletes THEN JanMayFail ELSE {FALSE}) :
               /\ sweep' = [sweep EXCEPT !.files = RestAfterDelete(@, fails)]
               /\ janStore' = IF deletes /\ ~fails
                              THEN [janStore EXCEPT ![key] = 0] ELSE janStore
               /\ janHist' = [janHist EXCEPT !.nFail = @ + Cnt(fails),
                                !.clean = @ /\ ~fails,
                                !.examined = @ \cup {key},
                                !.delFailed = @ \cup (IF fails THEN {key} ELSE {}),
                                !.deleted = @ \cup
                                  (IF deletes /\ ~fails
                                   THEN {[key |-> key, lastModified |-> janStore[key],
                                          cutoff |-> sweep.cutoff]}
                                   ELSE {}),
                                !.callAfterStop =
                                  @ \/ (deletes /\ janHist.sweepAtStop = janHist.nSweeps)]
  /\ UNCHANGED <<jan, wg>>
  /\ JanFrame

JanNext ==
  \/ StartCleanupRoutine
  \/ StopCleanupRoutine
  \/ DayPasses
  \/ JanitorSelect
  \/ CleanupBegin
  \/ CleanupListAlbums
  \/ CleanupListDownloads
  \/ CleanupFile

(***************************************************************************)
(* Paths and numbers as the handlers compute them: path/filepath, strings  *)
(* and strconv on sequences of characters.                                 *)
(***************************************************************************)
IndexOf(str, ch) ==
  IF \E i \in 1..Len(str) : str[i] = ch
  THEN CHOOSE i \in 1..Len(str) : str[i] = ch /\ \A j \in 1..(i - 1) : str[j] # ch
  ELSE 0

LastIndexOf(str, ch) ==
  IF \E i \in 1..Len(str) : str[i] = ch
  THEN CHOOSE i \in 1..Len(str) : str[i] = ch /\ \A j \in (i + 1)..Len(str) : str[j] # ch
  ELSE 0

(* strings.Split(str, sep) for a separator of one character *)
RECURSIVE Split(_, _)
Split(str, sep) ==
  LET i == IndexOf(str, sep)
  IN IF i = 0 THEN <<str>>
     ELSE <<SubSeq(str, 1, i - 1)>> \o Split(SubSeq(str, i + 1, Len(str)), sep)

(* strings.Join(parts, sep) *)
RECURSIVE JoinParts(_, _)
JoinParts(parts, sep) ==
  IF parts = <<>> THEN <<>>
  ELSE IF Len(parts) = 1 THEN parts[1]
  ELSE parts[1] \o <<sep>> \o JoinParts(Tail(parts), sep)

(* strings.TrimSuffix *)
TrimSuffix(str, suf) ==
  IF Len(str) >= Len(suf) /\ SubSeq(str, Len(str) - Len(suf) + 1, Len(str)) = suf
  THEN SubSeq(str, 1, Len(str) - Len(suf))
  ELSE str

RECURSIVE TrimSlashes(_)
TrimSlashes(path) ==
  IF path # <<>> /\ path[Len(path)] = "/"
  THEN TrimSlashes(SubSeq(path, 1, Len(path) - 1))
  ELSE path

(* a variant of filepathBase that keeps the path as it is *)
WholePath(path) == path

(* filepath.Base: the last element of the path; "." for the empty path and
   "/" for a path of slashes *)
filepathBase(path) ==
  IF path = <<>> THEN <<".">>
  ELSE LET p == TrimSlashes(path)
           q == SubSeq(p, LastIndexOf(p, "/") + 1, Len(p))
       IN IF q = <<>> THEN <<"/">> ELSE q

(* filepath.Clean of a relative path: empty and "." elements are dropped,
   ".." removes the element before it *)
RECURSIVE CleanParts(_, _)
CleanParts(done, parts) ==
  IF parts = <<>> THEN done
  ELSE LET e == Head(parts)
       IN IF e = <<>> \/ e = <<".">> THEN CleanParts(done, Tail(parts))
          ELSE IF e = <<".", ".">> /\ done # <<>> /\ done[Len(done)] # <<".", ".">>
          THEN CleanParts(SubSeq(done, 1, Len(done) - 1), Tail(parts))
          ELSE CleanParts(Append(done, e), Tail(parts))

filepathClean(path) ==
  LET parts == CleanParts(<<>>, Split(path, "/"))
  IN IF parts = <<>> THEN <<".">> ELSE JoinParts(parts, "/")

(* filepath.Join: the non-empty elements joined by "/", then Clean *)
filepathJoin(elems) ==
  filepathClean(JoinParts(SelectSeq(elems, LAMBDA e : e # <<>>), "/"))

(* the value of a sequence of decimal digits *)
RECURSIVE DigitsValue(_)
DigitsValue(ds) ==
  IF ds = <<>> THEN 0
  ELSE 10 * DigitsValue(SubSeq(ds, 1, Len(ds) - 1))
       + (CHOOSE d \in 0..9 : Digits[d + 1] = ds[Len(ds)])

AllDigits(str) == \A i \in 1..Len(str) : \E d \in 1..10 : Digits[d] = str[i]

(* a variant of Atoi that takes digits only and no zero *)
AtoiPositive(str) ==
  IF str # <<>> /\ AllDigits(str) /\ DigitsValue(str) > 0
  THEN [err |-> NoErr, n |-> DigitsValue(str)]
  ELSE [err |-> AnErr, n |-> 0]

(* strconv.Atoi: an optional sign, then one decimal digit or more *)
Atoi(str) ==
  LET signed == str # <<>> /\ str[1] \in {"+", "-"}
      ds == IF signed THEN Tail(str) ELSE str
  IN IF ds = <<>> \/ ~AllDigits(ds) THEN [err |-> AnErr, n |-> 0]
     ELSE [err |-> NoErr,
           n |-> IF signed /\ str[1] = "-" THEN 0 - DigitsValue(ds) ELSE DigitsValue(ds)]

(* fmt.Sprint of an integer *)
Sprint(n) == IF n < 0 THEN <<"-">> \o Itoa(0 - n) ELSE Itoa(n)

(***************************************************************************)
(* The storage key of an archive as CreateZipAsync (lines 67-73) and       *)
(* DownloadZip (lines 522-528) compute it.                                 *)
(***************************************************************************)
ArchiveKey(clientID, albumID, filename) ==
  filepathJoin(<< <<"clients">>, Sprint(clientID), Sprint(albumID),
                  <<"downloads">>, filename >>)

(***************************************************************************)
(* ClientAccessController.DownloadZip on one request.  The filename is any *)
(* short text, or the one CreateZipAsync has put in a download URL.        *)
(***************************************************************************)
FileAlphabet == {"a", "-", "+", "0", "7", "/", "."}
FileStems == UNION {[1..n -> FileAlphabet] : n \in 0..MaxFileLen}
Filenames == FileStems \cup {ZipFilename(f) : f \in FileStems}

NameAlphabet == {"a", " ", "-", "/", "."}
AlbumNames == UNION {[1..n -> NameAlphabet] : n \in 0..MaxNameLen}

NoDownload == [status |-> "none", albumID |-> 0, key |-> <<>>, read |-> FALSE]

DownloadInit ==
  /\ \/ \E c \in Clients, f \in Filenames :
          dlReq = [client |-> c, filename |-> f, built |-> FALSE, name |-> <<>>, id |-> 0]
     \/ \E c \in Clients, name \in AlbumNames, id \in AlbumIDs :
          dlReq = [client |-> c, filename |-> ZipFilename(JobID(name, id)),
                   built |-> TRUE, name |-> name, id |-> id]
  /\ dlRet = NoDownload

(* lines 498-558 *)
DownloadZip ==
  /\ dlRet.status = "none"
  /\ LET filename == filepathBase(dlReq.filename)
         parts == Split(TrimSuffix(filename, DotZip), "-")
         parsed == Atoi(parts[Len(parts)])
         zipKey == ArchiveKey(dlReq.client, parsed.n, filename)
     IN IF parsed.err # NoErr
        THEN dlRet' = [NoDownload EXCEPT !.status = "400"]
        ELSE \E found \in BOOLEAN :
               dlRet' = [status |-> IF found THEN "200" ELSE "404",
                         albumID |-> parsed.n, key |-> zipKey, read |-> TRUE]
  /\ UNCHANGED dlReq
  /\ UNCHANGED <<cacheVars, zipVars, jobVars, janVars, favVars, viewVars>>

DownloadNext == DownloadZip

(***************************************************************************)
(* CreateZipAsync, lines 75-100, beside the janitor: the archive of an     *)
(* album is found at its key and the ready notification is sent.  The      *)
(* store is not written.  The day of the notification is kept.             *)
(***************************************************************************)
ArchiveKeyOf(a) == ObjectKey(a, "downloads", ZipName)

NotifyFound ==
  /\ janHist.notice = NoNotice
  /\ \E a \in Albums, statFails \in JanMayFail, mailFails \in JanMayFail :
       /\ ~(statFails /\ mailFails)
       /\ alreadyExists(ErrOf(statFails), janStore[ArchiveKeyOf(a)] # 0)
       /\ janHist' = [janHist EXCEPT
                        !.nFail = @ + Cnt(mailFails),
                        !.notice = IF mailFails THEN @
                                   ELSE [key |-> ArchiveKeyOf(a), at |-> janNow]]
  /\ UNCHANGED <<jan, wg, janStore, sweep>>
  /\ JanFrame

(* the janitor with one album's downloads folder in use, and the requests
   for its archive *)
RetentionInit ==
  /\ JanInit
  /\ \A key \in JanKeys : AlbumOfKey(key) # 1 => janStore[key] = 0

RetentionNext == JanNext \/ NotifyFound

(***************************************************************************)
(* AlbumService.ToggleFavorite (part_001, lines 137-217) on the favorites  *)
(* of one client and album.  The table has the primary key (client_id,     *)
(* album_id, image_path): an INSERT of a row that is there fails.  A call  *)
(* is two statements, the SELECT and then the DELETE or the INSERT, and    *)
(* the calls of two requests interleave.                                   *)
(***************************************************************************)
FavCallers == 1..NumFavCallers
FavKeys == {"a.jpg", "b.jpg"}

NotFound == "not found"

FavMayFail == IF favFail < MaxFavFailures THEN {FALSE, TRUE} ELSE {FALSE}

NoFavCall ==
  [pc |-> "none", key |-> "", q |-> NoErr, exists |-> FALSE, ret |-> FALSE,
   err |-> NoErr]

FavInit ==
  /\ \E rows \in SUBSET FavKeys : favorites = rows
  /\ favCall = [p \in FavCallers |-> NoFavCall]
  /\ nToggles = 0
  /\ favFail = 0

FavFrame == UNCHANGED <<cacheVars, zipVars, jobVars, janVars, dlVars, viewVars>>

(* db.QueryRow, line 166: nil when the row is there, the not-found error
   when it is not, or another error *)
QueryRow(rows, key, fails) ==
  IF fails THEN AnErr ELSE IF key \in rows THEN NoErr ELSE NotFound

(* sqlz.IsNotFound *)
IsNotFound(e) == e = NotFound

(* a variant of existsAfterQuery that takes every error of the query for
   "no such row" *)
existsAfterQueryAnyErrorIsMissing(e) ==
  IF e # NoErr THEN [exists |-> FALSE, err |-> NoErr]
  ELSE [exists |-> TRUE, err |-> NoErr]

(* lines 167-179: what the query's error makes of exists, and the error
   the call returns at once *)
existsAfterQuery(e) ==
  IF e # NoErr
  THEN IF IsNotFound(e) THEN [exists |-> FALSE, err |-> NoErr]
       ELSE [exists |-> FALSE, err |-> AnErr]
  ELSE [exists |-> TRUE, err |-> NoErr]

(* a request arrives: ToggleFavorite(clientID, albumID, key) is called *)
ToggleBegin(p) ==
  /\ favCall[p].pc \in {"none", "returned"}
  /\ nToggles < MaxToggles
  /\ \E key \in FavKeys : favCall' = [favCall EXCEPT ![p] = [NoFavCall EXCEPT !.pc = "query", !.key = key]]
  /\ nToggles' = nToggles + 1
  /\ UNCHANGED <<favorites, favFail>>
  /\ FavFrame

(* lines 166-179 *)
ToggleQuery(p) ==
  /\ favCall[p].pc = "query"
  /\ \E fails \in FavMayFail :
       LET e == QueryRow(favorites, favCall[p].key, fails)
           r == existsAfterQuery(e)
       IN /\ favCall' = [favCall EXCEPT ![p].q = e,
                                        ![p].exists = r.exists,
                                        ![p].err = r.err,
                                        ![p].pc = IF r.err # NoErr THEN "returned" ELSE "exec"]
          /\ favFail' = favFail + Cnt(fails)
  /\ UNCHANGED <<favorites, nToggles>>
  /\ FavFrame

(* lines 182-216: DELETE when exists, INSERT otherwise; then the return of
   exists.  The INSERT of a row that is there violates the primary key. *)
ToggleExec(p) ==
  /\ favCall[p].pc = "exec"
  /\ LET key == favCall[p].key
         exists == favCall[p].exists
     IN \E fails \in FavMayFail :
          LET execErr == fails \/ (~exists /\ key \in favorites)
          IN /\ favorites' = IF execErr THEN favorites
                             ELSE IF exists THEN favorites \ {key}
                             ELSE favorites \cup {key}
             /\ favCall' = [favCall EXCEPT ![p].pc = "returned",
                                           ![p].ret = IF execErr THEN FALSE ELSE exists,
                                           ![p].err = ErrOf(execErr)]
             /\ favFail' = favFail + Cnt(fails)
  /\ UNCHANGED nToggles
  /\ FavFrame

FavNext ==
  \/ \E p \in FavCallers : ToggleBegin(p)
  \/ \E p \in FavCallers : ToggleQuery(p)
  \/ \E p \in FavCallers : ToggleExec(p)

(***************************************************************************)
(* The album page: convertAlbumToViewModel (part_001, lines 633-678) on    *)
(* the listings of one album's thumbnails/ and originals/ folders.  The    *)
(* folders are filled by uploads and removals of originals and by the      *)
(* sweeps of the Cache Builder, which writes thumbnails/{base name} for    *)
(* the originals getAlbumImageListing keeps and removes nothing.           *)
(***************************************************************************)
(* the file names there are, in the order storage lists keys *)
ViewFiles ==
  << <<"a", ".", "j", "p", "g">>, <<"b", ".", "p", "n", "g">>,
     <<"c", ".", "J", "P", "E", "G">> >>

ViewNames == {ViewFiles[i] : i \in 1..Len(ViewFiles)}

(* filepath.Ext: from the last dot on *)
filepathExt(name) ==
  LET i == LastIndexOf(name, ".")
  IN IF i = 0 THEN <<>> ELSE SubSeq(name, i, Len(name))

(* a variant of validExt that keeps every original *)
anyExt(name) == TRUE

(* getAlbumImageListing's filter, config.go lines 273 and 288-292 *)
validExt(name) ==
  ToLower(filepathExt(name)) \in {<<".", "j", "p", "g">>, <<".", "j", "p", "e", "g">>}

(* S3Client.List of a folder holding the names of the set: Objects, empty
   when the call fails *)
ListFolder(names, fails) ==
  IF fails THEN <<>> ELSE SelectSeq(ViewFiles, LAMBDA f : f \in names)

NoView == [status |-> "none", images |-> <<>>]

ViewInit ==
  /\ \E names \in SUBSET ViewNames : viewOrig = names
  /\ viewThumb = {}
  /\ viewRet = NoView

ViewFrame == UNCHANGED <<cacheVars, zipVars, jobVars, janVars, dlVars, favVars>>

(* the photographer uploads an original, or removes one *)
UploadToAlbum ==
  /\ \E name \in ViewNames \ viewOrig : viewOrig' = viewOrig \cup {name}
  /\ UNCHANGED <<viewThumb, viewRet>>
  /\ ViewFrame

RemoveFromAlbum ==
  /\ \E name \in viewOrig : viewOrig' = viewOrig \ {name}
  /\ UNCHANGED <<viewThumb, viewRet>>
  /\ ViewFrame

(* a sweep of the Cache Builder over the album, config.go lines 154-169:
   one thumbnail for every original of the filtered listing *)
SweepAlbum ==
  /\ viewThumb' = viewThumb \cup {name \in viewOrig : validExt(name)}
  /\ UNCHANGED <<viewOrig, viewRet>>
  /\ ViewFrame

(* lines 654-676: range over thumbnails.Objects, indexing
   originals.Objects with the same index *)
pairByIndex(thumbnails, originals) ==
  IF Len(thumbnails) > Len(originals)
  THEN [status |-> "panic", images |-> <<>>]
  ELSE [status |-> "ok",
        images |-> [i \in 1..Len(thumbnails) |->
                      [thumbnail |-> thumbnails[i], original |-> originals[i]]]]

(* lines 633-678 with getImages: the two listings, whose errors are logged,
   then the pairing *)
convertAlbumToViewModel ==
  /\ \E thumbErr \in BOOLEAN, origErr \in BOOLEAN :
       viewRet' = pairByIndex(ListFolder(viewThumb, thumbErr),
                              ListFolder(viewOrig, origErr))
  /\ UNCHANGED <<viewOrig, viewThumb>>
  /\ ViewFrame

ViewNext ==
  \/ UploadToAlbum
  \/ RemoveFromAlbum
  \/ SweepAlbum
  \/ convertAlbumToViewModel

(***************************************************************************)
(* The components at rest, for the specifications that do not run them.    *)
(***************************************************************************)
CacheAtRest ==
  /\ CacheInit
  /\ orig[NumAlbums] = 2

ZipAtRest ==
  /\ ZipInit
  /\ zipObj = [a \in ZipAlbums |-> FALSE]

JobAtRest ==
  /\ jName = <<>>
  /\ jID = 0
  /\ jPc = "call"
  /\ jRet = NoRet

JanAtRest ==
  /\ JanInit
  /\ janStore = [k \in JanKeys |-> 0]

DownloadAtRest ==
  /\ dlReq = [client |-> 1, filename |-> <<>>, built |-> FALSE, name |-> <<>>, id |-> 0]
  /\ dlRet = NoDownload

FavAtRest ==
  /\ FavInit
  /\ favorites = {}

ViewAtRest ==
  /\ ViewInit
  /\ viewOrig = {}

CacheNext ==
  \/ RunnerFirst
  \/ TickerTick
  \/ updateHomePageCache
  \/ ListAlbums
  \/ CheckAlbums
  \/ SubmitHeroAndList
  \/ CheckImages
  \/ StopAndWait
  \/ \E s \in Sweeps : TaskStart(s)
  \/ \E t \in active : ThumbTask(t)
  \/ \E t \in active : HeroTask(t)
  \/ \E t \in active : HomeTask(t)
  \/ UploadOriginal
  \/ Signal
  \/ Shutdown
  \/ MainReturns
  \/ SchedulerQuits

(***************************************************************************)
(* The specifications: the Cache Builder with its scheduler, the Archive   *)
(* Builder, one CreateZipAsync on arbitrary album names and ids, and the   *)
(* janitor of the Archive Builder.                                         *)
(***************************************************************************)
Init == CacheInit /\ ZipAtRest /\ JobAtRest /\ JanAtRest /\ DownloadAtRest /\ FavAtRest /\ ViewAtRest
Next == CacheNext
Spec == Init /\ [][Next]_vars

InitZip == CacheAtRest /\ ZipInit /\ JobAtRest /\ JanAtRest /\ DownloadAtRest /\ FavAtRest /\ ViewAtRest
SpecZip == InitZip /\ [][ZipNext]_vars

InitJobID == CacheAtRest /\ ZipAtRest /\ JobInit /\ JanAtRest /\ DownloadAtRest /\ FavAtRest /\ ViewAtRest
SpecJobID == InitJobID /\ [][JobNext]_vars

InitJanitor == CacheAtRest /\ ZipAtRest /\ JobAtRest /\ JanInit /\ DownloadAtRest /\ FavAtRest /\ ViewAtRest
SpecJanitor == InitJanitor /\ [][JanNext]_vars

InitDownload ==
  CacheAtRest /\ ZipAtRest /\ JobAtRest /\ JanAtRest /\ DownloadInit /\ FavAtRest /\ ViewAtRest
SpecDownload == InitDownload /\ [][DownloadNext]_vars

InitFavorites ==
  CacheAtRest /\ ZipAtRest /\ JobAtRest /\ JanAtRest /\ DownloadAtRest /\ FavInit /\ ViewAtRest
SpecFavorites == InitFavorites /\ [][FavNext]_vars

InitRetention ==
  CacheAtRest /\ ZipAtRest /\ JobAtRest /\ RetentionInit /\ DownloadAtRest /\ FavAtRest /\ ViewAtRest
SpecRetention == InitRetention /\ [][RetentionNext]_vars

InitView ==
  CacheAtRest /\ ZipAtRest /\ JobAtRest /\ JanAtRest /\ DownloadAtRest /\ FavAtRest /\ ViewInit
SpecView == InitView /\ [][ViewNext]_vars

(***************************************************************************)
(* Properties of the Cache Builder.                                        *)
(***************************************************************************)
(* a derived object is fresh: it is missing, or not older than its source *)
Fresh(srcLM, derLM) == derLM = 0 \/ derLM >= srcLM

FreshAll ==
  /\ Fresh(homeOrig, homeThumb)
  /\ \A a \in Albums : Fresh(orig[a], thumb[a]) /\ Fresh(orig[a], hero[a])

Scanning == {"home", "listAlbums", "chkAlbums", "album", "chkImages", "wait"}

(* the step by which an invocation of CreateCache returns *)
CreateCacheReturns ==
  /\ pc' = "idle"
  /\ pc \in Scanning \/ sweepNo' # sweepNo

(* C1: whenever CreateCache returns, every derived object (home preview,
   thumbnail, hero banner) is missing or not older than its source, whatever
   calls failed during the sweep. *)
C1_FreshWhenSweepReturns == [][CreateCacheReturns => FreshAll']_vars

(* C2: once CreateCache has returned and the shutdown context is not
   cancelled, no task submitted by that invocation is still queued or
   running. *)
C2_NoTaskLeftAtReturn ==
  (pc = "idle" /\ sweepNo >= 1 /\ ~ctxCancelled)
    => (queue[sweepNo] = <<>> /\ RunningIn(sweepNo) = {})

(* C3 as stated: a sweep that follows another with no upload by anyone else
   since the earlier one began issues no Put. *)
C3_SecondSweepNoPut ==
  (sweepNo >= 2 /\ lastTouch < sweepNo - 1) => puts = 0

(* C3 as amended: a sweep that follows another with no upload by anyone else
   since the earlier one began issues no Put, provided no call of either
   sweep (listing, stat, get, decode, encode, put) has returned an error. *)
C3_SecondSweepNoPutIfNoCallFailed ==
  (sweepNo >= 2 /\ lastTouch < sweepNo - 1 /\ ~prevFailed /\ ~failed) => puts = 0

(* C3 witness: a second sweep has run to its end after a first one that
   regenerated the stale thumbnail of album 1; no call failed, nothing was
   uploaded, and the second sweep issued no Put. *)
C3_Witness ==
  /\ sweepNo = 2
  /\ pc = "idle"
  /\ ~ctxCancelled
  /\ ~exited
  /\ ~failed
  /\ ~prevFailed
  /\ lastTouch = 0
  /\ thumb[1] = 2
  /\ puts = 0

(* C4: the scanning loop of CreateCache is left before its end only because
   a listing call of its own failed, never because a task failed; and the
   end of a task, failed or not, leaves the queued tasks queued. *)
C4_TaskFailureIsIsolated ==
  /\ [][(pc \in {"chkAlbums", "chkImages"} /\ pc' = "idle") => ownErr = AnErr]_vars
  /\ [][(\E t \in active : active' = active \ {t}) => queue' = queue]_vars

(* C5: when the listing of a client's albums or of an album's originals has
   failed, the sweep goes on with the next album or the next client. *)
C5_ListingFailureContinues ==
  [][(pc \in {"chkAlbums", "chkImages"} /\ ownErr = AnErr /\ pc' # pc)
       => pc' \in {"album", "listAlbums", "wait"}]_vars

(* C6: while a sweep is under way at most MaxCacheWorkers regeneration tasks
   are executing, and the loop can always submit. *)
C6_BoundedParallelism ==
  /\ pc \in Scanning => Cardinality(active) <= MaxCacheWorkers
  /\ (pc = "album" /\ ~exited) => ENABLED SubmitHeroAndList

(* C7: the tasks queued or executing in the worker pools all belong to at
   most one invocation of CreateCache. *)
C7_OneSweepAtATime ==
  ~ctxCancelled =>
    Cardinality({s \in Sweeps : queue[s] # <<>> \/ RunningIn(s) # {}}) <= 1

(***************************************************************************)
(* Properties of the Archive Builder.                                      *)
(***************************************************************************)
(* the stat of call c found the archive / there was no archive to find *)
Present(c) == calls[c].objAtStat /\ calls[c].statErr = NoErr
Absent(c) == ~calls[c].objAtStat

ExpectedJob(c) == JobID(ZipAlbum(calls[c].a).Name, ZipAlbum(calls[c].a).ID)

(* C8: every CreateZipAsync makes exactly one StatObject; nothing else is
   done before the stat's answer is acted on; a call that found the archive
   has sent one notification, has started no processZip and has returned
   the job id; a call made when there was no archive has sent nothing, has
   started exactly one processZip and has returned (jobID, nil), whatever
   became of the build. *)
C8_OneStatThenNotifyOrDetach ==
  \A c \in CallIDs :
    /\ calls[c].st # "none" => calls[c].statN = 1
    /\ calls[c].st # "returned" =>
         calls[c].mails = 0 /\ calls[c].started = 0 /\ build[c] = NoBuild
    /\ (calls[c].st = "returned" /\ Present(c)) =>
         /\ calls[c].mails = 1
         /\ calls[c].started = 0
         /\ build[c] = NoBuild
         /\ calls[c].job = ExpectedJob(c)
    /\ (calls[c].st = "returned" /\ Absent(c)) =>
         /\ calls[c].mails = 0
         /\ calls[c].started = 1
         /\ build[c].pc # "none"
         /\ calls[c].job = ExpectedJob(c)
         /\ calls[c].err = NoErr

(* C8 witness: one call found the archive and returned after one send; the
   other found none, returned (jobID, nil), and its build has failed. *)
C8_Witness ==
  \E c1, c2 \in CallIDs :
    /\ calls[c1].st = "returned" /\ Present(c1) /\ calls[c1].mails = 1
    /\ calls[c2].st = "returned" /\ Absent(c2)
    /\ build[c2].pc = "done" /\ build[c2].failed
    /\ calls[c2].err = NoErr

(* C9 as stated: a call made when the archive of its album existed opens no
   upload stream, writes no object, and sends one notification. *)
C9_NoRebuildOnceArchived ==
  \A c \in CallIDs :
    (calls[c].st = "returned" /\ calls[c].objAtStat) =>
      /\ build[c].streams = 0
      /\ build[c].writes = 0
      /\ calls[c].mails = 1

(* C9 as amended: a call made when the archive of its album existed, and
   whose StatObject returned without error, opens no upload stream, writes
   no object, and sends one notification. *)
C9_NoRebuildIfStatSucceeds ==
  \A c \in CallIDs :
    (calls[c].st = "returned" /\ calls[c].objAtStat /\ calls[c].statErr = NoErr) =>
      /\ build[c].streams = 0
      /\ build[c].writes = 0
      /\ calls[c].mails = 1

(* C9 witness: the build of the first call has completed and written the
   archive; the second call, for the same album, has returned after one
   send, with no stream opened. *)
C9_Witness ==
  /\ calls[1].st = "returned" /\ build[1].pc = "done" /\ build[1].writes = 1
  /\ calls[2].st = "returned" /\ calls[2].a = calls[1].a
  /\ calls[2].objAtStat /\ calls[2].statErr = NoErr
  /\ calls[2].mails = 1 /\ build[2].streams = 0

(***************************************************************************)
(* Properties of the job id.                                               *)
(***************************************************************************)
DigitChars == {Digits[i] : i \in 1..Len(Digits)}
DigitVal(ch) == (CHOOSE i \in 1..Len(Digits) : Digits[i] = ch) - 1

RECURSIVE DecValue(_)
DecValue(ds) ==
  IF ds = <<>> THEN 0
  ELSE 10 * DecValue(SubSeq(ds, 1, Len(ds) - 1)) + DigitVal(ds[Len(ds)])

(* ds is the decimal numeral of n *)
IsDecimalOf(ds, n) ==
  /\ Len(ds) >= 1
  /\ \A i \in 1..Len(ds) : ds[i] \in DigitChars
  /\ Len(ds) > 1 => ds[1] # "0"
  /\ DecValue(ds) = n

(* job is name with every space turned into a hyphen, a hyphen, and the
   decimal numeral of id *)
IsJobIDOf(job, name, id) ==
  /\ Len(job) > Len(name) + 1
  /\ \A i \in 1..Len(name) : job[i] = (IF name[i] = " " THEN "-" ELSE name[i])
  /\ job[Len(name) + 1] = "-"
  /\ IsDecimalOf(SubSeq(job, Len(name) + 2, Len(job)), id)

SpringShoot7 ==
  <<"S", "p", "r", "i", "n", "g", "-", "S", "h", "o", "o", "t", "-", "7">>

(* C10: whatever the stat and the send did, the job id CreateZipAsync
   returns is the album name with every space replaced by a hyphen, then a
   hyphen, then the album id in decimal; "Spring Shoot" with id 7 gives
   "Spring-Shoot-7". *)
C10_JobIDFromNameAndID ==
  jPc = "returned" =>
    /\ IsJobIDOf(jRet.job, jName, jID)
    /\ (jName = SpringShoot /\ jID = 7) => jRet.job = SpringShoot7

(* C10 witness: the archive of "Spring Shoot", id 7, existed, the send
   failed, and the call returned "Spring-Shoot-7" with the error. *)
C10_Witness ==
  /\ jPc = "returned"
  /\ jName = SpringShoot
  /\ jID = 7
  /\ jRet.mail
  /\ jRet.err = AnErr
  /\ jRet.job = SpringShoot7

(* the entries are one complete entry per listed original of album a, in
   the order of the listing, each named by the last element of its key *)
OneEntryPerOriginal(entries, a) ==
  /\ Len(entries) = NumZipFiles
  /\ \A i \in 1..NumZipFiles :
       /\ entries[i].name = ZipOriginals(a)[i][Len(ZipOriginals(a)[i])]
       /\ entries[i].complete

(* C11: a build that has ended with no failed call has uploaded once, has
   sent exactly one notification, the archive object exists, and what the
   build wrote is one complete entry per original in listing order; the
   step that completes an upload puts what the build wrote at the album's
   archive key. *)
C11_CleanBuildWritesAllOriginals ==
  /\ [](\A c \in CallIDs :
          (build[c].pc = "done" /\ build[c].errs = 0) =>
            /\ zipObj[calls[c].a]
            /\ build[c].writes = 1
            /\ build[c].mails = 1
            /\ OneEntryPerOriginal(build[c].entries, calls[c].a))
  /\ [][\A c \in CallIDs :
          (build[c].pc = "wait" /\ build'[c].pc = "email") =>
            /\ zipObj'[calls[c].a]
            /\ zipData'[calls[c].a] = build[c].entries]_vars

(* C11 witness: a build has ended with no failed call, one notification,
   and the archive at the key holds one entry per original. *)
C11_Witness ==
  \E c \in CallIDs :
    /\ build[c].pc = "done" /\ build[c].errs = 0 /\ build[c].mails = 1
    /\ zipObj[calls[c].a]
    /\ Len(zipData[calls[c].a]) = NumZipFiles
    /\ zipData[calls[c].a] = build[c].entries

(* C12: when the loop over the listed originals has ended, the archive being
   written holds a complete entry for each original whose addFile succeeded
   and no entry for one whose addFile failed: as many entries as originals
   less the failed ones, none of them truncated; and the build goes on to
   finalise the archive. *)
C12_FailedImageLeavesNoEntry ==
  \A c \in CallIDs :
    build[c].pc = "closeZip" =>
      /\ build[c].todo = <<>>
      /\ Len(build[c].entries) = NumZipFiles - build[c].errs
      /\ \A i \in 1..Len(build[c].entries) : build[c].entries[i].complete

(* the build of call c has uploaded its archive and its send has failed *)
SendFailedAfterUpload(c) ==
  build[c].pc = "done" /\ build[c].writes = 1 /\ build[c].failed

(* C13 as stated: when the send of a build has failed after its upload, the
   archive is still at the key, the build has opened one stream, uploaded
   once and called SendEmail once, and every returned call for the album
   made when the archive existed has started no build. *)
C13_ArchiveKeptWhenSendFails ==
  \A c \in CallIDs :
    SendFailedAfterUpload(c) =>
      /\ zipObj[calls[c].a]
      /\ build[c].streams = 1 /\ build[c].writes = 1 /\ build[c].mails = 1
      /\ \A d \in CallIDs :
           (calls[d].st = "returned" /\ calls[d].a = calls[c].a /\ calls[d].objAtStat)
             => calls[d].started = 0

(* C13 as amended: the same, for the calls whose StatObject returned
   without error. *)
C13_ArchiveKeptAndFoundIfStatSucceeds ==
  \A c \in CallIDs :
    SendFailedAfterUpload(c) =>
      /\ zipObj[calls[c].a]
      /\ build[c].streams = 1 /\ build[c].writes = 1 /\ build[c].mails = 1
      /\ \A d \in CallIDs :
           (calls[d].st = "returned" /\ calls[d].a = calls[c].a /\ calls[d].objAtStat
              /\ calls[d].statErr = NoErr)
             => calls[d].started = 0 /\ calls[d].mails = 1

(* C13 witness: the send of the first call's build failed after its upload;
   the second call, for the same album, found the archive and returned
   without starting a build. *)
C13_Witness ==
  /\ SendFailedAfterUpload(1)
  /\ calls[2].st = "returned" /\ calls[2].a = calls[1].a
  /\ calls[2].objAtStat /\ calls[2].statErr = NoErr
  /\ calls[2].started = 0
  /\ zipObj[calls[1].a]

(***************************************************************************)
(* Properties of the janitor.                                              *)
(***************************************************************************)
(* a StopCleanupRoutine has returned after StartCleanupRoutine *)
StoppedAfterStart == jan.pc # "none" /\ janHist.stops > 0

(* C14: once StopCleanupRoutine has returned on a started janitor, the stop
   signal of the loop is closed, the loop has exited, its ticker is stopped
   and no sweep has begun since the return *)
C14_StopEndsTheLoop ==
  StoppedAfterStart =>
    /\ jan.s.stopCleanup \in chClosed
    /\ jan.pc = "exited"
    /\ jan.tickerStopped
    /\ ~janHist.begunAfterStop

(* C15: StopCleanupRoutine never returns on a started janitor while a sweep
   is in progress, so no List or Delete of such a sweep follows the return *)
C15_StopJoinsTheSweep ==
  /\ janHist.sweepAtStop = 0
  /\ ~janHist.callAfterStop

(* a step of StopCleanupRoutine *)
StopStep == <<stopPc, nStops, chClosed, panicked>>' # <<stopPc, nStops, chClosed, panicked>>

(* C16: a StopCleanupRoutine before any StartCleanupRoutine, or after an
   earlier StopCleanupRoutine has returned, returns in one step, changes
   nothing of the service, the loop, the channels or the store, and does not
   close a closed channel *)
C16_StopWhenStoppedChangesNothing ==
  [][(StopStep /\ (jan.pc = "none" \/ janHist.stops > 0)) =>
       /\ nStops' = nStops + 1
       /\ stopPc' = "idle"
       /\ ~panicked'
       /\ UNCHANGED <<svc, jan, chClosed, wg, janNow, janStore, sweep>>]_vars

C16_Witness == nStops = 2 /\ janHist.stops = 2 /\ ~panicked

(* a step of CleanupFile that examines the first file of its listing *)
ExaminesFile ==
  sweep.pc = "file" /\ sweep.files # <<>> /\ sweep'.files = Tail(sweep.files)

(* C17: a sweep leaves a .zip object whose lastModified is its cutoff, and
   removes one whose lastModified is earlier when the Delete call succeeds *)
C17_CutoffIsStrict ==
  [][ExaminesFile =>
       LET key == Head(sweep.files)
       IN IsZip(key) =>
            /\ janStore[key] = sweep.cutoff => janStore'[key] = janStore[key]
            /\ (janStore[key] < sweep.cutoff /\ janHist'.nFail = janHist.nFail)
                 => janStore'[key] = 0]_vars

C17_Witness ==
  /\ \E key \in janHist.examined : IsZip(key) /\ janStore[key] = sweep.cutoff
  /\ \E d \in janHist.deleted : d.cutoff = sweep.cutoff /\ d.lastModified = d.cutoff - 1

(* the key lies in a downloads folder *)
InDownloads(key) == \E i \in 1..Len(key) : key[i] = "downloads"

(* the key ends in .zip, in whatever case *)
EndsInZipAnyCase(key) ==
  /\ Len(key) >= 4
  /\ key[Len(key) - 3] = "."
  /\ key[Len(key) - 2] \in {"z", "Z"}
  /\ key[Len(key) - 1] \in {"i", "I"}
  /\ key[Len(key)] \in {"p", "P"}

(* C18: the only change a step of the janitor makes to the store is the
   removal of an object in a downloads folder whose key ends in .zip in any
   case and whose lastModified is before the cutoff of the sweep *)
C18_DeletesOnlyExpiredArchives ==
  [][\A key \in JanKeys :
       janStore'[key] # janStore[key] =>
         /\ janStore'[key] = 0
         /\ sweep.pc = "file"
         /\ InDownloads(key)
         /\ EndsInZipAnyCase(key)
         /\ janStore[key] < sweep.cutoff]_vars

C18_Witness ==
  /\ sweep.pc = "done"
  /\ \E d \in janHist.deleted : d.cutoff = sweep.cutoff
  /\ \E key \in JanKeys :
       ~InDownloads(key) /\ janStore[key] # 0 /\ janStore[key] < sweep.cutoff
  /\ \E key \in JanKeys :
       /\ InDownloads(key) /\ ~EndsInZipAnyCase(key)
       /\ janStore[key] # 0 /\ janStore[key] < sweep.cutoff
  /\ \E key \in JanKeys :
       InDownloads(key) /\ EndsInZipAnyCase(key) /\ janStore[key] >= sweep.cutoff

(* the last sweep has returned and none of its calls failed *)
CleanSweepDone == sweep.pc = "done" /\ janHist.clean

(* C19: when a sweep has returned and none of its calls failed, no object in
   the downloads folder of any album of any client has a key ending in .zip
   (in any case) and a lastModified before the cutoff of the sweep *)
C19_NoExpiredArchiveAfterCleanSweep ==
  CleanSweepDone =>
    \A c \in Clients : \A i \in 1..Len(GetAlbumList(c)) : \A key \in JanKeys :
      (HasPrefix(key, DownloadsKey(GetAlbumList(c)[i])) /\ EndsInZipAnyCase(key))
        => ~(janStore[key] # 0 /\ janStore[key] < sweep.cutoff)

C19_Witness ==
  /\ CleanSweepDone
  /\ sweep.cutoff = Today - ExpirationDays
  /\ \E d \in janHist.deleted : d.lastModified = Aged(8) /\ ~IsZipCaseSensitive(d.key)
  /\ \E key \in JanKeys : InDownloads(key) /\ janStore[key] = Aged(1)

(* the album whose folders hold the key, and the place of the key in them *)
KeyIndex(key) == CHOOSE i \in 1..(Len(FileNames) + 1) : JanKeysOf(AlbumOfKey(key))[i] = key

(* the sweep has returned and both GetAll and every GetAlbumList succeeded *)
SweepWentThroughCatalog == sweep.pc = "done" /\ ~janHist.catalogFailed

(* the sweep has called List for every album of every client *)
EveryAlbumListed ==
  \A c \in Clients : \A i \in 1..Len(GetAlbumList(c)) :
    GetAlbumList(c)[i] \in janHist.listed

(* no file of an album whose List failed has been examined *)
FailedListingSkipsAlbum ==
  \A key \in janHist.examined : AlbumOfKey(key) \notin janHist.listFailed

(* C20 as stated: after a failed List no file of the album is examined, after
   a failed Delete no later file of the album is examined, and the sweep
   calls List for every album of every client *)
C20_FailureSkipsRestOfAlbum ==
  /\ FailedListingSkipsAlbum
  /\ \A key \in janHist.delFailed : \A other \in janHist.examined :
       AlbumOfKey(other) = AlbumOfKey(key) => KeyIndex(other) <= KeyIndex(key)
  /\ SweepWentThroughCatalog => EveryAlbumListed

(* C20, amended: after a failed List no file of the album is examined; after
   a failed Delete the object stays and every other file listed for the album
   is still examined; either way the sweep calls List for every album of
   every client *)
C20_FailureIsolatedPerAlbumOrFile ==
  /\ FailedListingSkipsAlbum
  /\ \A key \in janHist.delFailed : janStore[key] # 0
  /\ SweepWentThroughCatalog =>
       /\ EveryAlbumListed
       /\ \A a \in Albums \ janHist.listFailed : \A key \in JanKeys :
            (HasPrefix(key, DownloadsKey(a)) /\ janStore[key] # 0)
              => key \in janHist.examined

C20_Witness ==
  /\ SweepWentThroughCatalog
  /\ \E key \in janHist.delFailed : \E other \in janHist.examined :
       AlbumOfKey(other) = AlbumOfKey(key) /\ KeyIndex(other) > KeyIndex(key)

(***************************************************************************)
(* Properties of the process: errors, shutdown.                            *)
(***************************************************************************)
(* the process has been ended by os.Exit, not by the return of main *)
EndedByExit == exited /\ mainPc # "returned"

(* C21: an error of a sweep does not end the process: the process is ended
   by os.Exit at most by the bucket check of the first CreateCache, the one
   that runs at startup; the janitor has no step that ends the process *)
C21_SweepErrorKeepsProcessRunning == EndedByExit => sweepNo = 0

(***************************************************************************)
(* Properties of DownloadZip.                                              *)
(***************************************************************************)
(* the text after the final hyphen of the filename, its trailing .zip
   removed; the whole of it when it has no hyphen *)
TrailingSegment(filename) ==
  LET stem == TrimSuffix(filename, DotZip)
  IN SubSeq(stem, LastIndexOf(stem, "-") + 1, Len(stem))

(* the text is the decimal notation of a positive integer *)
IsPositiveInteger(str) ==
  /\ str # <<>>
  /\ \A i \in 1..Len(str) : str[i] \in {"0", "1", "2", "3", "4", "5", "6", "7", "8", "9"}
  /\ \E i \in 1..Len(str) : str[i] # "0"

(* C22: DownloadZip reads from storage exactly when the trailing segment of
   the filename is a positive integer, and rejects every other filename
   without a read; it ends with a response for every filename *)
C22_OnlyPositiveIdsReachStorage ==
  dlRet.status # "none" =>
    LET ok == IsPositiveInteger(TrailingSegment(filepathBase(dlReq.filename)))
    IN /\ dlRet.read <=> ok
       /\ ~ok => dlRet.status = "400"

(* the request carries the filename CreateZipAsync made for an album, and
   DownloadZip has answered it *)
BuiltLinkServed == dlReq.built /\ dlRet.status # "none"

(* the key to which CreateZipAsync writes the archive of the album *)
BuiltKey == ArchiveKey(dlReq.client, dlReq.id, ZipFilename(JobID(dlReq.name, dlReq.id)))

(* C30: for the filename CreateZipAsync derives from any album name and id,
   DownloadZip for the same client recovers the album id and reads the key
   CreateZipAsync wrote *)
C30_DownloadFindsWhatBuildWrote ==
  BuiltLinkServed =>
    /\ dlRet.read
    /\ dlRet.albumID = dlReq.id
    /\ dlRet.key = BuiltKey

(***************************************************************************)
(* Further properties of the Archive Builder.                              *)
(***************************************************************************)
(* call c is at its branch on a stat that found no archive, while the build
   of another call for the same album is under way *)
SecondRequestWhileBuilding(c) ==
  /\ calls[c].st = "statted"
  /\ ~alreadyExists(calls[c].statErr, calls[c].objectData)
  /\ \E d \in CallIDs \ {c} : calls[d].a = calls[c].a /\ InProgress(build, d)

(* C23: a CreateZipAsync whose stat found no archive starts its build also
   when the build of an earlier call for the same album is under way, and
   leaves that build as it is *)
C23_NoDeduplication ==
  [][\A c \in CallIDs :
       (SecondRequestWhileBuilding(c) /\ calls'[c].st = "returned") =>
         /\ build'[c].pc = "putStream"
         /\ \A d \in CallIDs \ {c} : build'[d] = build[d]]_vars

C23_Witness ==
  \E c, d \in CallIDs :
    /\ c # d
    /\ calls[c].a = calls[d].a
    /\ ~calls[c].objAtStat /\ ~calls[d].objAtStat
    /\ build[c].pc = "wait" /\ build[d].pc = "wait"
    /\ ~zipObj[calls[c].a]

(* the step of build c from position "from": to position "to" without an
   error, or to its end with an error and no notification *)
StepOrEnd(c, from, to) ==
  (build[c].pc = from /\ build'[c] # build[c]) =>
    \/ build'[c].pc = to /\ build'[c].errs = build[c].errs /\ ~build'[c].failed
    \/ /\ build'[c].pc = "done" /\ build'[c].errs = build[c].errs + 1
       /\ build'[c].failed /\ build'[c].mails = 0

(* C28: processZip closes the zip writer, then the stream writer, then waits
   for the upload; a failure of any of the three ends the job without a
   notification, and the notification is sent only after the wait has
   succeeded *)
C28_FinalisationInOrder ==
  [][\A c \in CallIDs :
       /\ StepOrEnd(c, "closeZip", "closeStream")
       /\ StepOrEnd(c, "closeStream", "wait")
       /\ StepOrEnd(c, "wait", "email")
       /\ (build'[c].pc = "email" /\ build[c].pc # "email") => build[c].pc = "wait"
       /\ build'[c].mails > build[c].mails =>
            build[c].pc = "email" /\ build[c].stream = "done"
       /\ build[c].pc = "done" => build'[c] = build[c]]_vars

C28_Witness ==
  \E c, d \in CallIDs :
    /\ build[c].pc = "done" /\ build[c].mails = 1 /\ build[c].stream = "done"
    /\ build[d].pc = "done" /\ build[d].mails = 0 /\ build[d].failed
    /\ build[d].stream = "failed" /\ build[d].errs = 1

(* the object at the archive key of album a is what a build wrote whose
   upload was acknowledged, or it was there when the process started *)
ProducedByAcknowledgedUpload(a) ==
  \/ \E c \in CallIDs :
       /\ calls[c].a = a
       /\ build[c].stream = "done"
       /\ zipData[a] = build[c].entries
  \/ /\ a = NumZipAlbums
     /\ zipData[a] = [i \in 1..NumZipFiles |-> Entry(Base(ZipOriginals(a)[i]), TRUE)]

(* C29: an object is at an archive key only as the result of a build that
   closed its zip writer and its stream and whose wait for the upload
   succeeded (or from before the start); so it is when CreateZipAsync finds
   it and sends the notification, and a build that ends on an error puts or
   changes no object *)
C29_OnlyAcknowledgedUploadsAreVisible ==
  /\ [](\A a \in ZipAlbums : zipObj[a] => ProducedByAcknowledgedUpload(a))
  /\ [](\A c \in CallIDs :
          calls[c].mails > 0 =>
            zipObj[calls[c].a] /\ ProducedByAcknowledgedUpload(calls[c].a))
  /\ [][\A a \in ZipAlbums :
          (zipObj'[a] # zipObj[a] \/ zipData'[a] # zipData[a]) =>
            \E c \in CallIDs :
              /\ calls[c].a = a
              /\ build[c].pc = "wait" /\ build'[c].pc = "email"
              /\ build'[c].errs = build[c].errs
              /\ zipData'[a] = build[c].entries]_vars

C29_Witness ==
  \E c, d \in CallIDs :
    /\ calls[c].a = 1 /\ calls[d].a = 1
    /\ build[d].stream = "done"
    /\ calls[c].st = "returned" /\ calls[c].mails = 1 /\ build[c].pc = "none"

(***************************************************************************)
(* Further properties of the Cache Builder.                                *)
(***************************************************************************)
(* the step by which task t ends *)
TaskEnds(t) == t \in active /\ active' = active \ {t}

(* the step has issued a Put for a derived object: the object has a new
   stamp, or the Put has been counted *)
PutIssued(t, old, new) == new # old \/ (t.s = sweepNo /\ puts' > puts)

(* a call of the step has failed.  With a Put issued, the call is a
   StatObject of the check or the Put itself; a task that fails earlier
   issues no Put *)
CheckFailed(old, new) == nFail' > nFail

(* updateHomePageCache has submitted its task *)
HomeTaskSubmitted == pc = "home" /\ Len(queue'[sweepNo]) > Len(queue[sweepNo])

(* absent, or strictly older than the source *)
AbsentOrOlder(derLM, srcLM) == derLM = 0 \/ derLM < srcLM

(* C25 as stated: a Put for a thumbnail or a hero banner is issued only when
   the object is absent or strictly older than its source at the check, and
   a task for the home preview is submitted only then *)
C25_PutOnlyWhenAbsentOrOlder ==
  [][/\ \A t \in active :
          /\ (t.k = "thumb" /\ TaskEnds(t) /\ PutIssued(t, thumb[t.a], thumb'[t.a]))
               => AbsentOrOlder(thumb[t.a], t.lm)
          /\ (t.k = "hero" /\ TaskEnds(t) /\ PutIssued(t, hero[t.a], hero'[t.a]))
               => AbsentOrOlder(hero[t.a], orig[t.a])
     /\ HomeTaskSubmitted => AbsentOrOlder(homeThumb, homeOrig)]_vars

(* C25, amended: the same, unless a StatObject of the check has failed *)
C25_PutOnlyWhenAbsentOrOlderOrStatFailed ==
  [][/\ \A t \in active :
          /\ (t.k = "thumb" /\ TaskEnds(t) /\ PutIssued(t, thumb[t.a], thumb'[t.a])
                /\ ~CheckFailed(thumb[t.a], thumb'[t.a]))
               => AbsentOrOlder(thumb[t.a], t.lm)
          /\ (t.k = "hero" /\ TaskEnds(t) /\ PutIssued(t, hero[t.a], hero'[t.a])
                /\ ~CheckFailed(hero[t.a], hero'[t.a]))
               => AbsentOrOlder(hero[t.a], orig[t.a])
     /\ HomeTaskSubmitted => AbsentOrOlder(homeThumb, homeOrig)]_vars

C25_Witness ==
  /\ sweepNo = 2 /\ pc = "idle" /\ ~failed /\ ~prevFailed
  /\ homeThumb = homeOrig /\ homeThumb > 0
  /\ thumb[1] = orig[1] /\ thumb[1] > 0
  /\ hero[2] = orig[2] /\ hero[2] > 0
  /\ puts = 0

(* the scanning loop leaves its test of err: by the return, or onwards *)
LoopDecides == pc \in {"chkAlbums", "chkImages"} /\ pc' # pc

(* C24: the tasks share no variable with the scanning loop.  No step of a
   task changes err, the variable the loop assigns and tests; and whether
   the loop returns or goes on is decided by what its own listing call
   returned, in both directions: it returns exactly when that call failed. *)
C24_TasksShareNoMemoryWithLoop ==
  /\ [][\A t \in active : TaskEnds(t) => err' = err]_vars
  /\ [][LoopDecides => ((pc' = "idle") <=> (ownErr = AnErr))]_vars

(* CreateCache is between its first and its last line *)
InSweep == pc \notin {"init", "idle", "stopped"}

(* C26: once the shutdown context is cancelled no task starts; and the
   tasks that had started run to their end and CreateCache returns: when
   the process ends by main's return, no task is still executing and no
   sweep is still under way. *)
C26_CancelLetsStartedTasksFinish ==
  /\ [][ctxCancelled => active' \subseteq active]_vars
  /\ [](mainPc = "returned" => (active = {} /\ ~InSweep))

(* a call of CreateCache begins: the sweeps are counted at its first line *)
CreateCacheBegins == sweepNo' > sweepNo

(* C27: once the shutdown signal has been put on the channel quit, whether
   it is still there or has been received by main or by the scheduler
   goroutine, no call of CreateCache begins. *)
C27_NoSweepBeginsAfterSignal ==
  [][quit # "empty" => ~CreateCacheBegins]_vars

(***************************************************************************)
(* Further properties of the janitor.                                      *)
(***************************************************************************)
(* the sweep has returned because GetAlbumList failed for the client
   sweep.ci: GetAll had succeeded, and the loop had not passed the last
   client *)
AlbumListFailedFor(c) ==
  sweep.pc = "done" /\ janHist.catalogFailed /\ sweep.ci = c

(* C31: when GetAlbumList has failed for one client, the sweep has still
   called List for the downloads folder of every album of every client
   that comes after it. *)
C31_AlbumListFailureSkipsOneClient ==
  \A c \in Clients :
    AlbumListFailedFor(c) =>
      \A d \in Clients : d > c =>
        \A i \in 1..Len(GetAlbumList(d)) : GetAlbumList(d)[i] \in janHist.listed

(***************************************************************************)
(* Properties of ToggleFavorite.                                           *)
(***************************************************************************)
(* the step by which the call of p returns *)
ToggleReturns(p) == favCall[p].pc # "returned" /\ favCall'[p].pc = "returned"

(* the call of p goes on to its second statement only when the query found
   the row or reported not-found *)
QueryErrorEndsCall ==
  \A p \in FavCallers :
    favCall[p].pc = "exec" =>
      /\ favCall[p].q # AnErr
      /\ favCall[p].exists = (favCall[p].q = NoErr)

(* C32: a call whose query reports not-found inserts the favorite and
   returns false; a call whose query finds the row deletes it and returns
   true; a call whose query fails otherwise, or whose INSERT or DELETE
   fails, returns an error and leaves the favorites as they are. *)
C32_ToggleTellsMissingFromFailed ==
  /\ []QueryErrorEndsCall
  /\ [][\A p \in FavCallers :
          ToggleReturns(p) =>
            LET key == favCall[p].key
                q == IF favCall[p].pc = "query" THEN favCall'[p].q ELSE favCall[p].q
            IN /\ (favCall'[p].err = NoErr /\ IsNotFound(q))
                    => (key \in favorites' /\ key \notin favorites
                        /\ favCall'[p].ret = FALSE)
               /\ (favCall'[p].err = NoErr /\ q = NoErr)
                    => (key \notin favorites' /\ favCall'[p].ret = TRUE)
               /\ q = AnErr => (favCall'[p].err # NoErr /\ favCall[p].pc = "query")
               /\ favCall'[p].err # NoErr
                    => (favorites' = favorites /\ favCall'[p].ret = FALSE)]_vars

(* both outcomes have happened: one call has inserted a favorite and
   returned false, the other has found its query failing and returned an
   error *)
C32_Witness ==
  /\ favCall[1].pc = "returned" /\ favCall[1].err = NoErr /\ ~favCall[1].ret
  /\ favCall[1].key \in favorites
  /\ favCall[2].pc = "returned" /\ favCall[2].q = AnErr /\ favCall[2].err = AnErr

(***************************************************************************)
(* Further properties of the Archive Builder.                              *)
(***************************************************************************)
(* processZip returns from a step between PutStream and the close of the
   stream's writer *)
ReturnsBeforeStreamClose(c) ==
  build[c].pc \in {"list", "add", "closeZip"} /\ build'[c].pc = "done"

(* C35: processZip does not return with the upload stream it has opened
   still open: when it returns after a failed listing or a failed close of
   the zip writer, the writer of the stream has been closed. *)
C35_StreamClosedOnEveryPath ==
  [][\A c \in CallIDs :
       ReturnsBeforeStreamClose(c) => build'[c].stream # "open"]_vars

(* C39: when addFile has returned, the body of the source object it
   fetched is closed: no build holds an open source stream between two
   originals or after the last. *)
C39_SourceClosedBeforeNextOriginal ==
  \A c \in CallIDs : build[c].srcOpen = 0

(* CreateZipAsync of call c sends the notification for an archive it has
   found: the short-circuit path of lines 76-100 *)
NotifiesExisting(c) == calls[c].st = "statted" /\ calls'[c].mails > calls[c].mails

(* the archive of album a has an entry named after each of its originals *)
HasEveryOriginal(a) ==
  \A i \in 1..NumZipFiles :
    \E j \in 1..Len(zipData[a]) : zipData[a][j].name = Base(ZipOriginals(a)[i])

(* C34: when CreateZipAsync notifies the client of an archive it has found
   at the key, the archive has an entry for every original of the album. *)
C34_NotifiedArchiveHasEveryOriginal ==
  [][\A c \in CallIDs : NotifiesExisting(c) => HasEveryOriginal(calls[c].a)]_vars

(***************************************************************************)
(* Further properties of the shutdown.                                     *)
(***************************************************************************)
(* the signal is on the channel and both main and the scheduler goroutine
   wait to receive from it *)
BothWaitOnQuit == quit = "signal" /\ mainPc = "serving" /\ pc = "idle"

(* C37: the signal is not lost to main.  The only signal there is, on the
   channel while both goroutines wait, is received by main, which goes on
   to cancel the shutdown context: no step takes it from the channel and
   leaves main waiting. *)
C37_ShutdownSignalReachesMain ==
  [][(BothWaitOnQuit /\ quit' = "taken") => mainPc' = "shutdown"]_vars

(***************************************************************************)
(* Further properties of DownloadZip.                                      *)
(***************************************************************************)
(* the key lies in the downloads folder of an album of the client and has
   no path element after the file's name *)
InDownloadsOf(key, clientID) ==
  LET elems == Split(key, "/")
  IN /\ Len(elems) = 5
     /\ elems[1] = <<"clients">>
     /\ elems[2] = Sprint(clientID)
     /\ elems[3] # <<>> /\ AllDigits(elems[3])
     /\ elems[4] = <<"downloads">>
     /\ elems[5] \notin {<<>>, <<".">>, <<".", ".">>}

(* C36: whatever the filename of the request, the key DownloadZip reads is
   {clientPhotoFolder}/{id of the session's client}/{n}/downloads/{file}. *)
C36_ReadsOnlyOwnDownloads ==
  dlRet.read => InDownloadsOf(dlRet.key, dlReq.client)

(* a request whose filename holds a directory has been served from the
   client's own downloads folder *)
C36_Witness ==
  /\ dlRet.read
  /\ ~dlReq.built
  /\ IndexOf(dlReq.filename, "/") > 0
  /\ Len(filepathBase(dlReq.filename)) < Len(dlReq.filename) - 1
  /\ dlReq.client = 2

(***************************************************************************)
(* Properties of the album page.                                           *)
(***************************************************************************)
(* the name without its extension *)
BaseName(name) == SubSeq(name, 1, LastIndexOf(name, ".") - 1)

(* C38: convertAlbumToViewModel does not index past the end of the
   originals listing, and every image it returns pairs a thumbnail with
   the original of the same base name. *)
C38_ThumbnailPairedWithItsOriginal ==
  /\ viewRet.status # "panic"
  /\ \A i \in 1..Len(viewRet.images) :
       BaseName(viewRet.images[i].thumbnail) = BaseName(viewRet.images[i].original)

(***************************************************************************)
(* Properties of the retention of archives.                                *)
(***************************************************************************)
(* C33: an archive a ready notification was sent for is in the store for
   ExpirationDays days from the day of the notification. *)
C33_NotifiedArchiveKeptForRetention ==
  (janHist.notice # NoNotice /\ janNow < janHist.notice.at + ExpirationDays)
    => janStore[janHist.notice.key] # 0

====
